---- MODULE Spec2Model ----
(***************************************************************************)
(* A model of the fluent SQL query builder of jimmitjoo/tjo                *)
(* (database/query_builder.go).  Go strings are modelled as sequences of   *)
(* one-character strings, so that validation, formatting and placeholder   *)
(* counting are computed character by character as the code does.          *)
(***************************************************************************)
EXTENDS Integers, Sequences, FiniteSets, TLC

VARIABLES qb, other, result, port, calls, pc, firstErr, input, chunk

vars == <<qb, other, result, port, calls, pc, firstErr, input, chunk>>

(***************************************************************************)
(* Bounds of the model.                                                    *)
(***************************************************************************)
MaxIdentLen == 4
MaxCalls == 2

(***************************************************************************)
(* Characters and strings.                                                 *)
(***************************************************************************)
LowerSeq == <<"a","b","c","d","e","f","g","h","i","j","k","l","m",
              "n","o","p","q","r","s","t","u","v","w","x","y","z">>
UpperSeq == <<"A","B","C","D","E","F","G","H","I","J","K","L","M",
              "N","O","P","Q","R","S","T","U","V","W","X","Y","Z">>
DigitSeq == <<"0","1","2","3","4","5","6","7","8","9">>

\* The backquote character.  A string literal of TLA+ cannot hold a backquote,
\* so this one character is written by name; characters are only ever compared.
Backtick == "BACKTICK"
DoubleQuote == "\""

Range(f) == {f[i] : i \in DOMAIN f}

Letter == Range(LowerSeq) \cup Range(UpperSeq)
Digit == Range(DigitSeq)
\* the regexp class \s of Go's regexp package
Whitespace == {" ", "\t", "\n", "\f", "\r"}

\* [a-zA-Z_] and [a-zA-Z0-9_]
IdentStart == Letter \cup {"_"}
IdentPart == Letter \cup Digit \cup {"_"}

HasPrefix(s, c) == Len(s) >= 1 /\ s[1] = c
HasSuffix(s, c) == Len(s) >= 1 /\ s[Len(s)] = c
ContainsAny(s, cs) == \E i \in 1..Len(s) : s[i] \in cs

\* Two letters outside ASCII, each written as one named character: the
\* dotless small i (U+0131) and the long s (U+017F).
DotlessI == "U+0131"
LongS == "U+017F"

\* unicode.ToUpper, which strings.ToUpper applies to every rune: the ASCII
\* small letters, and the two letters above, whose upper case is ASCII
ToUpperChar(c) ==
    IF c \in Range(LowerSeq)
    THEN UpperSeq[CHOOSE i \in 1..26 : LowerSeq[i] = c]
    ELSE IF c = DotlessI THEN "I"
    ELSE IF c = LongS THEN "S"
    ELSE c

ToUpper(s) == [i \in 1..Len(s) |-> ToUpperChar(s[i])]

RECURSIVE Join(_, _)
\* strings.Join(parts, sep)
Join(parts, sep) ==
    IF Len(parts) = 0 THEN <<>>
    ELSE IF Len(parts) = 1 THEN parts[1]
    ELSE parts[1] \o sep \o Join(Tail(parts), sep)

RECURSIVE Itoa(_)
\* the decimal text of a non-negative integer (%d)
Itoa(n) == IF n < 10 THEN <<DigitSeq[n + 1]>> ELSE Itoa(n \div 10) \o <<DigitSeq[(n % 10) + 1]>>

RECURSIVE CountChar(_, _)
CountChar(s, c) ==
    IF Len(s) = 0 THEN 0
    ELSE (IF s[1] = c THEN 1 ELSE 0) + CountChar(Tail(s), c)

\* all strings over the characters cs of length at most n
RECURSIVE StringsUpTo(_, _)
StringsUpTo(cs, n) ==
    IF n = 0 THEN {<<>>}
    ELSE LET shorter == StringsUpTo(cs, n - 1)
         IN shorter \cup {Append(s, c) : s \in shorter, c \in cs}

(***************************************************************************)
(* Identifier / operator validator.                                        *)
(***************************************************************************)
\* a letter or underscore, then letters, digits and underscores
IsWord(s) ==
    /\ Len(s) >= 1
    /\ s[1] \in IdentStart
    /\ \A i \in 1..Len(s) : s[i] \in IdentPart

\* the pattern validIdentifier: a word, optionally followed by a dot and a word
validIdentifier(s) ==
    \/ IsWord(s)
    \/ \E k \in 1..Len(s) :
          /\ s[k] = "."
          /\ IsWord(SubSeq(s, 1, k - 1))
          /\ IsWord(SubSeq(s, k + 1, Len(s)))

\* the pattern validOrderDirection: exactly ASC or DESC
validOrderDirection(s) == s \in {<<"A","S","C">>, <<"D","E","S","C">>}

\* the quoted-identifier branch of isValidIdentifier is taken
IsQuotedForm(s) ==
    \/ (HasPrefix(s, Backtick) /\ HasSuffix(s, Backtick))
    \/ (HasPrefix(s, DoubleQuote) /\ HasSuffix(s, DoubleQuote))

\* s[1 : len(s)-1] panics (slice bounds out of range) when 1 > len(s)-1
isValidIdentifierPanics(s) == IsQuotedForm(s) /\ 1 > Len(s) - 1

\* isValidIdentifier(s), where it returns
isValidIdentifier(s) ==
    IF IsQuotedForm(s)
    THEN LET inner == SubSeq(s, 2, Len(s) - 1)
         IN Len(inner) > 0 /\ ~ContainsAny(inner, {Backtick, DoubleQuote})
    ELSE validIdentifier(s)

validOps ==
    { <<"=">>, <<"!","=">>, <<"<",">">>, <<"<">>, <<">">>, <<"<","=">>, <<">","=">>,
      <<"L","I","K","E">>, <<"N","O","T"," ","L","I","K","E">>,
      <<"I","N">>, <<"N","O","T"," ","I","N">>,
      <<"B","E","T","W","E","E","N">>,
      <<"I","S"," ","N","U","L","L">>,
      <<"I","S"," ","N","O","T"," ","N","U","L","L">>,
      <<"R","E","G","E","X","P">> }

isValidOperator(op) == ToUpper(op) \in validOps

(***************************************************************************)
(* Pattern matching.  A pattern is matched from a set of positions P (the  *)
(* index of the next unread character); each step returns the positions    *)
(* the match can continue from, and the whole string matches when the      *)
(* position after its last character is reached.                           *)
(***************************************************************************)
AfterLit(s, P, lit) ==
    {p + Len(lit) : p \in {q \in P : q + Len(lit) - 1 <= Len(s)
                                     /\ SubSeq(s, q, q + Len(lit) - 1) = lit}}

\* zero or more characters of the class cs
AfterStar(s, P, cs) ==
    {q \in 1..(Len(s) + 1) : \E p \in P : p <= q /\ \A i \in p..(q - 1) : s[i] \in cs}

\* one or more characters of the class cs
AfterPlus(s, P, cs) ==
    {q \in 1..(Len(s) + 1) : \E p \in P : p < q /\ \A i \in p..(q - 1) : s[i] \in cs}

\* one or more characters outside cs
AfterPlusNot(s, P, cs) ==
    {q \in 1..(Len(s) + 1) : \E p \in P : p < q /\ \A i \in p..(q - 1) : s[i] \notin cs}

\* a letter or underscore, then letters, digits and underscores
AfterWord(s, P) ==
    {q \in 1..(Len(s) + 1) :
        \E p \in P : p < q /\ s[p] \in IdentStart /\ \A i \in p..(q - 1) : s[i] \in IdentPart}

\* word.word
AfterQualified(s, P) == AfterWord(s, AfterLit(s, AfterWord(s, P), <<".">>))

AtEnd(s, P) == (Len(s) + 1) \in P

kwAS == <<"A","S">>
kwAND == <<"A","N","D">>
kwOR == <<"O","R">>

aggregateNames ==
    { <<"C","O","U","N","T">>, <<"S","U","M">>, <<"A","V","G">>, <<"M","I","N">>, <<"M","A","X">>,
      <<"G","R","O","U","P","_","C","O","N","C","A","T">> }

\* optional: whitespace, AS, whitespace, word
AfterOptionalAlias(s, P) ==
    P \cup AfterWord(s, AfterPlus(s, AfterLit(s, AfterPlus(s, P, Whitespace), kwAS), Whitespace))

\* the pattern aggregateFuncs, applied to the upper-cased string
aggregateFuncs(s) ==
    LET names == UNION {AfterLit(s, {1}, n) : n \in aggregateNames}
        open == AfterLit(s, AfterStar(s, names, Whitespace), <<"(">>)
        close == AfterLit(s, AfterPlusNot(s, open, {")"}), <<")">>)
    IN AtEnd(s, AfterOptionalAlias(s, close))

\* the pattern aliasPattern: word, optional .word, whitespace, AS, whitespace, word
aliasPattern(s) ==
    LET w == AfterWord(s, {1})
        col == w \cup AfterWord(s, AfterLit(s, w, <<".">>))
    IN AtEnd(s, AfterWord(s, AfterPlus(s, AfterLit(s, AfterPlus(s, col, Whitespace), kwAS), Whitespace)))

isValidSelectExpression(s) == aggregateFuncs(ToUpper(s)) \/ aliasPattern(s)

\* word.word, optional whitespace, =, optional whitespace, word.word
AfterComparison(s, P) ==
    AfterQualified(s, AfterStar(s, AfterLit(s, AfterStar(s, AfterQualified(s, P), Whitespace),
                                            <<"=">>), Whitespace))

RECURSIVE AfterChain(_, _)
\* zero or more of: whitespace, AND or OR, whitespace, comparison; then the end
AfterChain(s, P) ==
    IF P = {} THEN FALSE
    ELSE \/ AtEnd(s, P)
         \/ LET ws == AfterPlus(s, P, Whitespace)
                conn == AfterLit(s, ws, kwAND) \cup AfterLit(s, ws, kwOR)
            IN AfterChain(s, AfterComparison(s, AfterPlus(s, conn, Whitespace)))

\* joinPattern as it would be without the anchor at the end of the text
isValidJoinConditionUnanchored(on) == AfterComparison(on, {1}) # {}

\* the pattern joinPattern
isValidJoinCondition(on) == AfterChain(on, AfterComparison(on, {1}))

(***************************************************************************)
(* Values, errors and the builder.                                         *)
(***************************************************************************)
\* an interface{} value handed to a mutator: an int or a string
IntV(n) == [kind |-> "int", n |-> n, s |-> <<>>]
StrV(s) == [kind |-> "string", n |-> 0, s |-> s]

\* fmt.Sprintf("%s", v): a string is written as it is, an int as %!s(int=N)
FormatS(v) ==
    IF v.kind = "string" THEN v.s
    ELSE <<"%","!","s","(","i","n","t","=">> \o Itoa(v.n) \o <<")">>

\* fmt.Errorf(format, arg); NoErr is the nil error
Errorf(format, arg) == [format |-> format, arg |-> arg]
NoErr == [format |-> "nil", arg |-> <<>>]

whereCondition(column, operator, value, logic, params) ==
    [column |-> column, operator |-> operator, value |-> value, logic |-> logic,
     params |-> params]

joinClause(joinType, table, on) == [joinType |-> joinType, table |-> table, on |-> on]

\* the fields of a QueryBuilder; unionQuery is <<>> (nil) or <<child>>
newQueryBuilderWithDB(db, rawDB) ==
    [db |-> db, rawDB |-> rawDB, table |-> <<>>, selectCols |-> <<>>, whereConds |-> <<>>,
     orderBy |-> <<>>, groupBy |-> <<>>, having |-> <<>>, joins |-> <<>>,
     limitCount |-> 0, offsetCount |-> 0, unionQuery |-> <<>>, unionAll |-> FALSE,
     err |-> NoErr, includeTrashed |-> FALSE]

NewQueryBuilder(db) == newQueryBuilderWithDB(db, db)

LogicText(l) == IF l = "AND" THEN kwAND ELSE kwOR

opIN == <<"I","N">>
opBETWEEN == <<"B","E","T","W","E","E","N">>
opISNULL == <<"I","S"," ","N","U","L","L">>
opISNOTNULL == <<"I","S"," ","N","O","T"," ","N","U","L","L">>
opGT == <<">">>
opEQ == <<"=">>
star == <<"*">>

(***************************************************************************)
(* Mutators.  Each is an operator from the builder and the arguments to    *)
(* the builder after the call; XPanics says when the call does not return. *)
(***************************************************************************)
TablePanics(table) == isValidIdentifierPanics(table)

\* Table as it would be if a successful call cleared the recorded error
TableClearingErr(b, table) ==
    IF ~isValidIdentifier(table)
    THEN [b EXCEPT !.err = Errorf("invalid table name: %q", table)]
    ELSE [b EXCEPT !.table = table, !.err = NoErr]

Table(b, table) ==
    IF ~isValidIdentifier(table)
    THEN [b EXCEPT !.err = Errorf("invalid table name: %q", table)]
    ELSE [b EXCEPT !.table = table]

\* a column of Select that is passed over without an error
SelectColumnOk(col) ==
    \/ col = star
    \/ isValidSelectExpression(col)
    \/ (~isValidIdentifierPanics(col) /\ isValidIdentifier(col))

\* the first column Select stops at, 0 when it stops at none
SelectStop(columns) ==
    IF \E i \in 1..Len(columns) : ~SelectColumnOk(columns[i])
    THEN CHOOSE i \in 1..Len(columns) :
            /\ ~SelectColumnOk(columns[i])
            /\ \A j \in 1..(i - 1) : SelectColumnOk(columns[j])
    ELSE 0

SelectPanics(columns) ==
    SelectStop(columns) # 0 /\ isValidIdentifierPanics(columns[SelectStop(columns)])

Select(b, columns) ==
    IF SelectStop(columns) # 0
    THEN [b EXCEPT !.err = Errorf("invalid column name: %q", columns[SelectStop(columns)])]
    ELSE [b EXCEPT !.selectCols = columns]

WherePanics(column) == isValidIdentifierPanics(column)

\* Where as it would be if it refused a builder that has no table yet
WhereRequiringTable(b, column, operator, value) ==
    IF b.table = <<>>
    THEN [b EXCEPT !.err = Errorf("table name is required", <<>>)]
    ELSE IF ~isValidIdentifier(column)
    THEN [b EXCEPT !.err = Errorf("invalid column name in WHERE: %q", column)]
    ELSE IF ~isValidOperator(operator)
    THEN [b EXCEPT !.err = Errorf("invalid operator in WHERE: %q", operator)]
    ELSE [b EXCEPT !.whereConds =
             Append(@, whereCondition(column, operator, value, "AND", <<>>))]

Where(b, column, operator, value) ==
    IF ~isValidIdentifier(column)
    THEN [b EXCEPT !.err = Errorf("invalid column name in WHERE: %q", column)]
    ELSE IF ~isValidOperator(operator)
    THEN [b EXCEPT !.err = Errorf("invalid operator in WHERE: %q", operator)]
    ELSE [b EXCEPT !.whereConds =
             Append(@, whereCondition(column, operator, value, "AND", <<>>))]

\* OrWhere as it would be if it recorded the connective of Where
OrWhereAsAnd(b, column, operator, value) ==
    IF ~isValidIdentifier(column)
    THEN [b EXCEPT !.err = Errorf("invalid column name in OrWhere: %q", column)]
    ELSE IF ~isValidOperator(operator)
    THEN [b EXCEPT !.err = Errorf("invalid operator in OrWhere: %q", operator)]
    ELSE [b EXCEPT !.whereConds =
             Append(@, whereCondition(column, operator, value, "AND", <<>>))]

OrWhere(b, column, operator, value) ==
    IF ~isValidIdentifier(column)
    THEN [b EXCEPT !.err = Errorf("invalid column name in OrWhere: %q", column)]
    ELSE IF ~isValidOperator(operator)
    THEN [b EXCEPT !.err = Errorf("invalid operator in OrWhere: %q", operator)]
    ELSE [b EXCEPT !.whereConds =
             Append(@, whereCondition(column, operator, value, "OR", <<>>))]

\* "(?, ?, ...)" with one placeholder per value
InClause(values) ==
    <<"(">> \o Join([i \in 1..Len(values) |-> <<"?">>], <<",", " ">>) \o <<")">>

WhereIn(b, column, values) ==
    IF ~isValidIdentifier(column)
    THEN [b EXCEPT !.err = Errorf("invalid column name in WhereIn: %q", column)]
    ELSE [b EXCEPT !.whereConds =
             Append(@, whereCondition(column, opIN, StrV(InClause(values)), "AND", values))]

WhereBetween(b, column, start, end) ==
    IF ~isValidIdentifier(column)
    THEN [b EXCEPT !.err = Errorf("invalid column name in WhereBetween: %q", column)]
    ELSE [b EXCEPT !.whereConds =
             Append(@, whereCondition(column, opBETWEEN, StrV(<<"?"," ","A","N","D"," ","?">>), "AND",
                                      <<start, end>>))]

WhereNull(b, column) ==
    IF ~isValidIdentifier(column)
    THEN [b EXCEPT !.err = Errorf("invalid column name in WhereNull: %q", column)]
    ELSE [b EXCEPT !.whereConds =
             Append(@, whereCondition(column, opISNULL, StrV(<<>>), "AND", <<>>))]

WhereNotNull(b, column) ==
    IF ~isValidIdentifier(column)
    THEN [b EXCEPT !.err = Errorf("invalid column name in WhereNotNull: %q", column)]
    ELSE [b EXCEPT !.whereConds =
             Append(@, whereCondition(column, opISNOTNULL, StrV(<<>>), "AND", <<>>))]

JoinPanics(table) == isValidIdentifierPanics(table)

AddJoin(b, joinType, table, on, tableFormat, onFormat) ==
    IF ~isValidIdentifier(table)
    THEN [b EXCEPT !.err = Errorf(tableFormat, table)]
    ELSE IF ~isValidJoinCondition(on)
    THEN [b EXCEPT !.err = Errorf(onFormat, on)]
    ELSE [b EXCEPT !.joins = Append(@, joinClause(joinType, table, on))]

InnerJoin(b, table, on) ==
    AddJoin(b, <<"I","N","N","E","R">>, table, on,
            "invalid table name in Join: %q", "invalid JOIN condition: %q")

LeftJoin(b, table, on) ==
    AddJoin(b, <<"L","E","F","T">>, table, on,
            "invalid table name in LeftJoin: %q", "invalid LEFT JOIN condition: %q")

RightJoin(b, table, on) ==
    AddJoin(b, <<"R","I","G","H","T">>, table, on,
            "invalid table name in RightJoin: %q", "invalid RIGHT JOIN condition: %q")

OrderByPanics(column) == isValidIdentifierPanics(column)

OrderBy(b, column, direction) ==
    IF ~isValidIdentifier(column)
    THEN [b EXCEPT !.err = Errorf("invalid column name in OrderBy: %q", column)]
    ELSE LET dir == ToUpper(IF direction = <<>> THEN <<"A","S","C">> ELSE direction)
         IN IF ~validOrderDirection(dir)
            THEN [b EXCEPT !.err = Errorf("invalid ORDER BY direction: %q", direction)]
            ELSE [b EXCEPT !.orderBy = Append(@, column \o <<" ">> \o dir)]

\* the first column GroupBy stops at, 0 when it stops at none
GroupByStop(columns) ==
    IF \E i \in 1..Len(columns) :
          isValidIdentifierPanics(columns[i]) \/ ~isValidIdentifier(columns[i])
    THEN CHOOSE i \in 1..Len(columns) :
            /\ isValidIdentifierPanics(columns[i]) \/ ~isValidIdentifier(columns[i])
            /\ \A j \in 1..(i - 1) :
                  ~isValidIdentifierPanics(columns[j]) /\ isValidIdentifier(columns[j])
    ELSE 0

GroupByPanics(columns) ==
    GroupByStop(columns) # 0 /\ isValidIdentifierPanics(columns[GroupByStop(columns)])

\* GroupBy as it would be if it added the columns before the invalid one
GroupByKeepingValid(b, columns) ==
    IF GroupByStop(columns) # 0
    THEN [b EXCEPT !.err =
             Errorf("invalid column name in GroupBy: %q", columns[GroupByStop(columns)]),
                   !.groupBy = @ \o SubSeq(columns, 1, GroupByStop(columns) - 1)]
    ELSE [b EXCEPT !.groupBy = @ \o columns]

GroupBy(b, columns) ==
    IF GroupByStop(columns) # 0
    THEN [b EXCEPT !.err =
             Errorf("invalid column name in GroupBy: %q", columns[GroupByStop(columns)])]
    ELSE [b EXCEPT !.groupBy = @ \o columns]

HavingPanics(column) == isValidIdentifierPanics(column)

Having(b, column, operator, value) ==
    IF ~isValidIdentifier(column) /\ ~isValidSelectExpression(column)
    THEN [b EXCEPT !.err = Errorf("invalid column/expression in Having: %q", column)]
    ELSE IF ~isValidOperator(operator)
    THEN [b EXCEPT !.err = Errorf("invalid operator in Having: %q", operator)]
    ELSE [b EXCEPT !.having =
             Append(@, whereCondition(column, operator, value, "AND", <<>>))]

\* Limit as it would be if it also dropped the offset
LimitResettingOffset(b, count) == [b EXCEPT !.limitCount = count, !.offsetCount = 0]

Limit(b, count) == [b EXCEPT !.limitCount = count]

Offset(b, count) == [b EXCEPT !.offsetCount = count]

Union(b, query) == [b EXCEPT !.unionQuery = <<query>>, !.unionAll = FALSE]

UnionAll(b, query) == [b EXCEPT !.unionQuery = <<query>>, !.unionAll = TRUE]

(***************************************************************************)
(* Statement assembler.                                                    *)
(***************************************************************************)
\* one condition of a WHERE clause: the switch on cond.operator
CondText(cond) ==
    IF cond.operator \in {opISNULL, opISNOTNULL}
    THEN cond.column \o <<" ">> \o cond.operator
    ELSE IF cond.operator \in {opIN, opBETWEEN}
    THEN cond.column \o <<" ">> \o cond.operator \o <<" ">> \o FormatS(cond.value)
    ELSE cond.column \o <<" ">> \o cond.operator \o <<" ", "?">>

CondParams(cond) ==
    IF cond.operator \in {opISNULL, opISNOTNULL} THEN <<>>
    ELSE IF cond.operator \in {opIN, opBETWEEN} THEN cond.params
    ELSE <<cond.value>>

RECURSIVE WhereText(_, _)
\* the conditions from the i-th on, each after the first preceded by its logic
WhereText(conds, i) ==
    IF i > Len(conds) THEN <<>>
    ELSE (IF i > 1 THEN <<" ">> \o LogicText(conds[i].logic) \o <<" ">> ELSE <<>>)
         \o CondText(conds[i]) \o WhereText(conds, i + 1)

RECURSIVE WhereParams(_, _)
WhereParams(conds, i) ==
    IF i > Len(conds) THEN <<>>
    ELSE CondParams(conds[i]) \o WhereParams(conds, i + 1)

WhereClause(conds) ==
    IF Len(conds) > 0 THEN <<" ","W","H","E","R","E"," ">> \o WhereText(conds, 1) ELSE <<>>

RECURSIVE HavingText(_, _)
\* HAVING conditions always take the single-placeholder form
HavingText(conds, i) ==
    IF i > Len(conds) THEN <<>>
    ELSE (IF i > 1 THEN <<" ">> \o LogicText(conds[i].logic) \o <<" ">> ELSE <<>>)
         \o conds[i].column \o <<" ">> \o conds[i].operator \o <<" ", "?">>
         \o HavingText(conds, i + 1)

\* HavingParams as it would be if the values came in the reverse order
HavingParamsReversed(conds) == [i \in 1..Len(conds) |-> conds[Len(conds) + 1 - i].value]

HavingParams(conds) == [i \in 1..Len(conds) |-> conds[i].value]

RECURSIVE JoinsText(_, _)
JoinsText(joins, i) ==
    IF i > Len(joins) THEN <<>>
    ELSE <<" ">> \o joins[i].joinType \o <<" ","J","O","I","N"," ">> \o joins[i].table \o <<" ","O","N"," ">> \o joins[i].on
         \o JoinsText(joins, i + 1)

ErrTableRequired == Errorf("table name is required", <<>>)

SQLResult(sql, params, err) == [sql |-> sql, params |-> params, err |-> err]

RECURSIVE ToSQL(_)
\* ToSQL: (query, params, err)
ToSQL(b) ==
    IF b.err # NoErr THEN SQLResult(<<>>, <<>>, b.err)
    ELSE IF b.table = <<>> THEN SQLResult(<<>>, <<>>, ErrTableRequired)
    ELSE
      LET head ==
              <<"S","E","L","E","C","T"," ">>
              \o (IF Len(b.selectCols) = 0 THEN star ELSE Join(b.selectCols, <<",", " ">>))
              \o <<" ","F","R","O","M"," ">> \o b.table
              \o JoinsText(b.joins, 1)
              \o WhereClause(b.whereConds)
              \o (IF Len(b.groupBy) > 0
                  THEN <<" ","G","R","O","U","P"," ","B","Y"," ">> \o Join(b.groupBy, <<",", " ">>) ELSE <<>>)
              \o (IF Len(b.having) > 0
                  THEN <<" ","H","A","V","I","N","G"," ">> \o HavingText(b.having, 1) ELSE <<>>)
              \o (IF Len(b.orderBy) > 0
                  THEN <<" ","O","R","D","E","R"," ","B","Y"," ">> \o Join(b.orderBy, <<",", " ">>) ELSE <<>>)
              \o (IF b.limitCount > 0 THEN <<" ","L","I","M","I","T"," ">> \o Itoa(b.limitCount) ELSE <<>>)
              \o (IF b.offsetCount > 0 THEN <<" ","O","F","F","S","E","T"," ">> \o Itoa(b.offsetCount) ELSE <<>>)
          params == WhereParams(b.whereConds, 1) \o HavingParams(b.having)
      IN IF b.unionQuery = <<>> THEN SQLResult(head, params, NoErr)
         ELSE LET u == ToSQL(b.unionQuery[1])
              IN IF u.err # NoErr THEN SQLResult(<<>>, <<>>, u.err)
                 ELSE SQLResult(
                        head \o (IF b.unionAll THEN <<" ","U","N","I","O","N"," ","A","L","L"," ">> ELSE <<" ","U","N","I","O","N"," ">>) \o u.sql,
                        params \o u.params, NoErr)

(***************************************************************************)
(* Execution facade.  A terminal call is an operator from the builder to   *)
(* the builder after the call (b), what the call returns (res) and the     *)
(* statements it hands to the execution port, in order (stmts).  ok says   *)
(* whether the port executes the statement or fails it.                    *)
(***************************************************************************)
Stmt(op, db, sql, params) == [op |-> op, db |-> db, sql |-> sql, params |-> params]

ErrPort == Errorf("execution error", <<>>)

Outcome(b, op, sql, params, err, stmts) ==
    [b |-> b, res |-> [op |-> op, sql |-> sql, params |-> params, err |-> err],
     stmts |-> stmts]

\* ToSQL as it would be if assembling consumed the conditions
CallToSQLDraining(b) ==
    LET r == ToSQL(b)
    IN Outcome([b EXCEPT !.whereConds = <<>>], "ToSQL", r.sql, r.params, r.err, <<>>)

CallToSQL(b) ==
    LET r == ToSQL(b) IN Outcome(b, "ToSQL", r.sql, r.params, r.err, <<>>)

Get(b, ok) ==
    LET r == ToSQL(b)
    IN IF r.err # NoErr THEN Outcome(b, "Get", <<>>, <<>>, r.err, <<>>)
       ELSE Outcome(b, "Get", <<>>, <<>>, IF ok THEN NoErr ELSE ErrPort,
                    <<Stmt("Query", b.db, r.sql, r.params)>>)

\* First as it would be if it left the limit of the builder alone
FirstKeepingLimit(b) ==
    LET r == ToSQL(b)
    IN Outcome(b, "First", <<>>, <<>>, NoErr, <<Stmt("QueryRow", b.db, r.sql, r.params)>>)

\* First forces limit 1 and drops the assembly error
First(b) ==
    LET l == Limit(b, 1)
        r == ToSQL(l)
    IN Outcome(l, "First", <<>>, <<>>, NoErr, <<Stmt("QueryRow", l.db, r.sql, r.params)>>)

countExpr == <<"C","O","U","N","T","(","*",")">>

\* Count: the select columns are restored only after a successful assembly
Count(b, ok) ==
    LET c == [b EXCEPT !.selectCols = <<countExpr>>]
        r == ToSQL(c)
    IN IF r.err # NoErr THEN Outcome(c, "Count", <<>>, <<>>, r.err, <<>>)
       ELSE Outcome(b, "Count", <<>>, <<>>, IF ok THEN NoErr ELSE ErrPort,
                    <<Stmt("QueryRow", b.db, r.sql, r.params)>>)

Exists(b, ok) ==
    LET c == Count(b, ok) IN [c EXCEPT !.res.op = "Exists"]

\* the first entry of data, in iteration order, whose column Insert or Update stops at
DataStop(entries) ==
    IF \E i \in 1..Len(entries) :
          isValidIdentifierPanics(entries[i].col) \/ ~isValidIdentifier(entries[i].col)
    THEN CHOOSE i \in 1..Len(entries) :
            /\ isValidIdentifierPanics(entries[i].col) \/ ~isValidIdentifier(entries[i].col)
            /\ \A j \in 1..(i - 1) :
                  ~isValidIdentifierPanics(entries[j].col) /\ isValidIdentifier(entries[j].col)
    ELSE 0

DataPanics(b, entries) ==
    /\ b.err = NoErr /\ b.table # <<>>
    /\ DataStop(entries) # 0
    /\ isValidIdentifierPanics(entries[DataStop(entries)].col)

\* Insert(data); entries is data in the order the map iteration yields it
Insert(b, entries, ok) ==
    IF b.err # NoErr THEN Outcome(b, "Insert", <<>>, <<>>, b.err, <<>>)
    ELSE IF b.table = <<>> THEN Outcome(b, "Insert", <<>>, <<>>, ErrTableRequired, <<>>)
    ELSE IF DataStop(entries) # 0
    THEN Outcome(b, "Insert", <<>>, <<>>,
                 Errorf("invalid column name in Insert: %q", entries[DataStop(entries)].col),
                 <<>>)
    ELSE LET columns == [i \in 1..Len(entries) |-> entries[i].col]
             placeholders == [i \in 1..Len(entries) |-> <<"?">>]
             values == [i \in 1..Len(entries) |-> entries[i].val]
             query == <<"I","N","S","E","R","T"," ","I","N","T","O"," ">> \o b.table \o <<" ","(">> \o Join(columns, <<",", " ">>)
                      \o <<")"," ","V","A","L","U","E","S"," ","(">> \o Join(placeholders, <<",", " ">>) \o <<")">>
         IN Outcome(b, "Insert", <<>>, <<>>, IF ok THEN NoErr ELSE ErrPort,
                    <<Stmt("Exec", b.db, query, values)>>)

Update(b, entries, ok) ==
    IF b.err # NoErr THEN Outcome(b, "Update", <<>>, <<>>, b.err, <<>>)
    ELSE IF b.table = <<>> THEN Outcome(b, "Update", <<>>, <<>>, ErrTableRequired, <<>>)
    ELSE IF DataStop(entries) # 0
    THEN Outcome(b, "Update", <<>>, <<>>,
                 Errorf("invalid column name in Update: %q", entries[DataStop(entries)].col),
                 <<>>)
    ELSE LET setParts == [i \in 1..Len(entries) |-> entries[i].col \o <<" ","="," ","?">>]
             values == [i \in 1..Len(entries) |-> entries[i].val]
             query == <<"U","P","D","A","T","E"," ">> \o b.table \o <<" ","S","E","T"," ">> \o Join(setParts, <<",", " ">>)
                      \o WhereClause(b.whereConds)
         IN Outcome(b, "Update", <<>>, <<>>, IF ok THEN NoErr ELSE ErrPort,
                    <<Stmt("Exec", b.db, query, values \o WhereParams(b.whereConds, 1))>>)

Delete(b, ok) ==
    IF b.err # NoErr THEN Outcome(b, "Delete", <<>>, <<>>, b.err, <<>>)
    ELSE IF b.table = <<>> THEN Outcome(b, "Delete", <<>>, <<>>, ErrTableRequired, <<>>)
    ELSE Outcome(b, "Delete", <<>>, <<>>, IF ok THEN NoErr ELSE ErrPort,
                 <<Stmt("Exec", b.db, <<"D","E","L","E","T","E"," ","F","R","O","M"," ">> \o b.table \o WhereClause(b.whereConds),
                        WhereParams(b.whereConds, 1))>>)

(***************************************************************************)
(* The builder as a state machine: one builder, created by                 *)
(* NewQueryBuilder, on which the application calls mutators and terminal   *)
(* operations in any order.                                                *)
(*   qb        the builder                                                 *)
(*   result    what the last terminal call returned (op "none": no call)   *)
(*   port      the statements the last terminal call handed to the port    *)
(*   calls     the number of mutator calls made                            *)
(*   pc        "ready", or "panicked" once a call has panicked             *)
(*   firstErr  history: the error of the first mutator that failed         *)
(*   other     a second builder, where a specification compares two        *)
(*   input     the string a specification draws and hands to the code      *)
(*   chunk     the chunk iteration under way, see SpecChunk                *)
(***************************************************************************)
NoResult == [op |-> "none", sql |-> <<>>, params |-> <<>>, err |-> NoErr]

\* no chunk iteration is under way
NoChunk ==
    [kind |-> "none", size |-> 0, column |-> <<>>, offset |-> 0, lastID |-> 0,
     total |-> 0, callbacks |-> 0, events |-> <<>>]

\* arguments the application passes
sUsers == <<"u","s","e","r","s">>
sPosts == <<"p","o","s","t","s">>
sId == <<"i","d">>
sName == <<"n","a","m","e">>
sBadTable == <<"u","s","e","r","s",";"," ","D","R","O","P">>
sBadColumn == <<"i","d",";"," ","-","-">>
sBadOperator == <<"E","V","I","L">>
sOnUsersPosts == <<"u","s","e","r","s",".","i","d"," ","="," ","p","o","s","t","s",".","u","i","d">>
sBadOn == <<"u","s","e","r","s",".","i","d"," ","="," ","p","o","s","t","s",".","u","i","d",";"," ","-","-">>
sDESC == <<"D","E","S","C">>
sBadDirection == <<"D","O","W","N">>

TableInputs == {sUsers, sBadTable}
ColumnInputs == {sId, sBadColumn}
OperatorInputs == {opEQ, sBadOperator}
OnInputs == {sOnUsersPosts, sBadOn}
DirectionInputs == {sDESC, sBadDirection}
DataInputs == {<<[col |-> sName, val |-> IntV(1)]>>}
UnionInputs == {Table(NewQueryBuilder("pool"), sPosts)}

Init ==
    /\ qb = NewQueryBuilder("pool")
    /\ other = NewQueryBuilder("pool")
    /\ result = NoResult
    /\ port = <<>>
    /\ calls = 0
    /\ pc = "ready"
    /\ firstErr = NoErr
    /\ input = <<>>
    /\ chunk = NoChunk

\* a mutator call: it panics, or it returns the builder nb
Mutate(panics, nb) ==
    /\ pc = "ready"
    /\ calls < MaxCalls
    /\ calls' = calls + 1
    /\ IF panics
       THEN pc' = "panicked" /\ UNCHANGED <<qb, firstErr>>
       ELSE /\ pc' = pc
            /\ qb' = nb
            /\ firstErr' = IF firstErr = NoErr THEN nb.err ELSE firstErr
    /\ result' = NoResult
    /\ port' = <<>>
    /\ UNCHANGED <<other, input, chunk>>

DoTable == \E t \in TableInputs : Mutate(TablePanics(t), Table(qb, t))

DoSelect == \E c \in ColumnInputs : Mutate(SelectPanics(<<c>>), Select(qb, <<c>>))

DoWhere ==
    \E c \in ColumnInputs, o \in OperatorInputs :
        Mutate(WherePanics(c), Where(qb, c, o, IntV(1)))

DoOrWhere ==
    \E c \in ColumnInputs, o \in OperatorInputs :
        Mutate(WherePanics(c), OrWhere(qb, c, o, IntV(2)))

DoWhereIn ==
    \E c \in ColumnInputs : Mutate(WherePanics(c), WhereIn(qb, c, <<IntV(1), IntV(2)>>))

DoWhereBetween ==
    \E c \in ColumnInputs : Mutate(WherePanics(c), WhereBetween(qb, c, IntV(1), IntV(2)))

DoWhereNull == \E c \in ColumnInputs : Mutate(WherePanics(c), WhereNull(qb, c))

DoWhereNotNull == \E c \in ColumnInputs : Mutate(WherePanics(c), WhereNotNull(qb, c))

DoJoin ==
    \E t \in TableInputs, o \in OnInputs : Mutate(JoinPanics(t), InnerJoin(qb, t, o))

DoLeftJoin ==
    \E t \in TableInputs, o \in OnInputs : Mutate(JoinPanics(t), LeftJoin(qb, t, o))

DoRightJoin ==
    \E t \in TableInputs, o \in OnInputs : Mutate(JoinPanics(t), RightJoin(qb, t, o))

DoOrderBy ==
    \E c \in ColumnInputs, d \in DirectionInputs :
        Mutate(OrderByPanics(c), OrderBy(qb, c, d))

DoGroupBy == \E c \in ColumnInputs : Mutate(GroupByPanics(<<c>>), GroupBy(qb, <<c>>))

DoHaving ==
    \E c \in ColumnInputs, o \in OperatorInputs :
        Mutate(HavingPanics(c), Having(qb, c, o, IntV(1)))

DoLimit == Mutate(FALSE, Limit(qb, 10))

DoOffset == Mutate(FALSE, Offset(qb, 20))

DoUnion == \E u \in UnionInputs : Mutate(FALSE, Union(qb, u))

DoUnionAll == \E u \in UnionInputs : Mutate(FALSE, UnionAll(qb, u))

\* a terminal call with the outcome o
Terminal(o) ==
    /\ pc = "ready"
    /\ qb' = o.b
    /\ result' = o.res
    /\ port' = o.stmts
    /\ UNCHANGED <<other, calls, pc, firstErr, input, chunk>>

DoToSQL == Terminal(CallToSQL(qb))

DoGet == \E ok \in BOOLEAN : Terminal(Get(qb, ok))

DoFirst == Terminal(First(qb))

DoCount == \E ok \in BOOLEAN : Terminal(Count(qb, ok))

DoExists == \E ok \in BOOLEAN : Terminal(Exists(qb, ok))

DoInsert == \E d \in DataInputs, ok \in BOOLEAN : Terminal(Insert(qb, d, ok))

DoUpdate == \E d \in DataInputs, ok \in BOOLEAN : Terminal(Update(qb, d, ok))

DoDelete == \E ok \in BOOLEAN : Terminal(Delete(qb, ok))

Next ==
    \/ DoTable \/ DoSelect \/ DoWhere \/ DoOrWhere \/ DoWhereIn \/ DoWhereBetween
    \/ DoWhereNull \/ DoWhereNotNull \/ DoJoin \/ DoLeftJoin \/ DoRightJoin
    \/ DoOrderBy \/ DoGroupBy \/ DoHaving \/ DoLimit \/ DoOffset \/ DoUnion \/ DoUnionAll
    \/ DoToSQL \/ DoGet \/ DoFirst \/ DoCount \/ DoExists
    \/ DoInsert \/ DoUpdate \/ DoDelete

Spec == Init /\ [][Next]_vars

(***************************************************************************)
(* Sticky error.                                                           *)
(***************************************************************************)
ErrorCheckedTerminals == {"ToSQL", "Get", "Count", "Exists", "Insert", "Update", "Delete"}

\* C1: once a mutator has failed validation, the builder's error stays set
\* whatever mutators are called afterwards, and every ToSQL, Get, Count, Exists,
\* Insert, Update and Delete returns an error, returns no SQL text and no
\* parameters, and hands no statement to the execution port.
C1_StickyErrorBlocksTerminals ==
    firstErr # NoErr =>
        /\ qb.err # NoErr
        /\ result.op \in ErrorCheckedTerminals =>
              /\ result.err # NoErr
              /\ result.sql = <<>>
              /\ result.params = <<>>
              /\ port = <<>>

\* a Delete on a builder with a valid table whose Where was rejected
C1_Witness ==
    /\ firstErr = Errorf("invalid column name in WHERE: %q", sBadColumn)
    /\ qb.table = sUsers
    /\ result.op = "Delete"
    /\ result.err # NoErr
    /\ port = <<>>

\* C2: first error wins: when mutators have failed on the builder, ToSQL returns
\* the error recorded by the first failing mutator.
C2_FirstErrorWins ==
    (result.op = "ToSQL" /\ firstErr # NoErr) => result.err = firstErr

(***************************************************************************)
(* Identifier validation on every short string.  SpecIdent draws a string  *)
(* and hands it to isValidIdentifier and to the mutators that validate an  *)
(* identifier, each on a fresh builder.                                    *)
(***************************************************************************)
IdentChars == {"a", "1", "_", ".", ";", Backtick, DoubleQuote}

IdentInputs == StringsUpTo(IdentChars, MaxIdentLen)

InitIdent ==
    /\ input \in IdentInputs
    /\ qb = NewQueryBuilder("pool")
    /\ other = NewQueryBuilder("pool")
    /\ result = NoResult
    /\ port = <<>>
    /\ calls = 0
    /\ pc = "input"
    /\ firstErr = NoErr
    /\ chunk = NoChunk

\* a call that validates the identifier input: it panics, or returns value and builder
IdentCall(op, panics, value, nb) ==
    /\ pc = "input"
    /\ IF panics
       THEN pc' = "panicked" /\ UNCHANGED qb
       ELSE pc' = "returned" /\ qb' = nb
    /\ result' = [op |-> op, value |-> IF panics THEN FALSE ELSE value]
    /\ UNCHANGED <<other, port, calls, firstErr, input, chunk>>

IdentValidate ==
    IdentCall("isValidIdentifier", isValidIdentifierPanics(input), isValidIdentifier(input), qb)

IdentTable == IdentCall("Table", TablePanics(input), TRUE, Table(qb, input))

IdentWhere ==
    IdentCall("Where", WherePanics(input), TRUE, Where(qb, input, opEQ, IntV(1)))

IdentOrderBy ==
    IdentCall("OrderBy", OrderByPanics(input), TRUE, OrderBy(qb, input, <<>>))

IdentGroupBy ==
    IdentCall("GroupBy", GroupByPanics(<<input>>), TRUE, GroupBy(qb, <<input>>))

NextIdent == IdentValidate \/ IdentTable \/ IdentWhere \/ IdentOrderBy \/ IdentGroupBy

SpecIdent == InitIdent /\ [][NextIdent]_vars

\* C6: validation never panics: isValidIdentifier returns true or false for
\* every string, and the mutator that called it returns normally.
C6_ValidationNeverPanics == pc # "panicked"

\* the dot-separated parts of s are words, and there are one or two of them
RECURSIVE DotParts(_)
DotParts(s) ==
    IF \E k \in 1..Len(s) : s[k] = "."
    THEN LET k == CHOOSE i \in 1..Len(s) : s[i] = "." /\ \A j \in 1..(i - 1) : s[j] # "."
         IN <<SubSeq(s, 1, k - 1)>> \o DotParts(SubSeq(s, k + 1, Len(s)))
    ELSE <<s>>

BareIdentifier(s) ==
    /\ Len(DotParts(s)) \in {1, 2}
    /\ \A i \in 1..Len(DotParts(s)) : IsWord(DotParts(s)[i])

\* wrapped in a pair of the quote character q, the inner content non-empty
\* and free of q
WrappedIn(s, q) ==
    /\ Len(s) >= 3
    /\ s[1] = q
    /\ s[Len(s)] = q
    /\ \A i \in 2..(Len(s) - 1) : s[i] # q

\* C7: isValidIdentifier(s) is true exactly when s is a bare identifier with at
\* most one dot-qualified part, or s is wrapped in a matching pair of backticks
\* or of double quotes around non-empty content free of the wrapping quote
\* character; every other string is rejected.
C7_IdentifierExact ==
    (pc = "returned" /\ result.op = "isValidIdentifier") =>
        (result.value <=>
            (BareIdentifier(input) \/ WrappedIn(input, Backtick)
                                   \/ WrappedIn(input, DoubleQuote)))

(***************************************************************************)
(* Operators and values.  SpecOperators draws an operator string, sets a   *)
(* valid table on a fresh builder, adds one condition with the operator    *)
(* through Where, OrWhere or Having, and assembles.  The builder other     *)
(* receives the same calls as qb with another value argument.              *)
(***************************************************************************)
ToLowerChar(c) ==
    IF c \in Range(UpperSeq)
    THEN LowerSeq[CHOOSE i \in 1..26 : UpperSeq[i] = c]
    ELSE c

ToLower(s) == [i \in 1..Len(s) |-> ToLowerChar(s[i])]

\* the first character in upper case, the others in lower case
Capitalized(s) == [i \in 1..Len(s) |-> IF i = 1 THEN ToUpperChar(s[i]) ELSE ToLowerChar(s[i])]

MaxOpLen == 2

OpChars == {"=", "!", "<", ">", " ", "i", "N", ";"}

WordOpInputs ==
    { <<"L","I","K","E">>, <<"N","O","T"," ","L","I","K","E">>, <<"I","N">>, <<"N","O","T"," ","I","N">>, <<"B","E","T","W","E","E","N">>, <<"I","S"," ","N","U","L","L">>, <<"I","S"," ","N","O","T"," ","N","U","L","L">>, <<"R","E","G","E","X","P">>,
      <<"E","V","I","L">>, <<"I","N","V","A","L","I","D">>, <<"L","I","K","E","S">>, <<"N","O","T","L","I","K","E">>, <<"N","O","T"," "," ","I","N">>, <<"I","S"," ","N","U","L">>, <<"I","L","I","K","E">>, <<"R","L","I","K","E">>,
      <<"l",DotlessI,"k","e">>, <<"i",LongS," ","n","u","l","l">>,
      <<"="," ","1"," ","O","R"," ","1","=","1">>, <<"I","N"," ","(","1",")">>, <<"I","S"," ","N","U","L","L"," ","-","-">> }

OpInputs ==
    StringsUpTo(OpChars, MaxOpLen)
    \cup WordOpInputs
    \cup {ToLower(w) : w \in WordOpInputs}
    \cup {Capitalized(w) : w \in WordOpInputs}

ValueInputs == {IntV(1), IntV(2), StrV(<<"?">>)}

InitOperators ==
    /\ input \in OpInputs
    /\ qb = NewQueryBuilder("pool")
    /\ other = NewQueryBuilder("pool")
    /\ result = NoResult
    /\ port = <<>>
    /\ calls = 0
    /\ pc = "new"
    /\ firstErr = NoErr
    /\ chunk = NoChunk

OpTable ==
    /\ pc = "new"
    /\ pc' = "tabled"
    /\ qb' = Table(qb, sUsers)
    /\ other' = Table(other, sUsers)
    /\ calls' = calls + 1
    /\ UNCHANGED <<result, port, firstErr, input, chunk>>

\* one condition with the operator input: nb on qb, no on other
OpCondition(op, nb, no) ==
    /\ pc = "tabled"
    /\ pc' = "mutated"
    /\ qb' = nb
    /\ other' = no
    /\ calls' = calls + 1
    /\ firstErr' = nb.err
    /\ result' = [NoResult EXCEPT !.op = op]
    /\ UNCHANGED <<port, input, chunk>>

OpWhere ==
    \E v \in ValueInputs, w \in ValueInputs :
        OpCondition("Where", Where(qb, sId, input, v), Where(other, sId, input, w))

OpOrWhere ==
    \E v \in ValueInputs, w \in ValueInputs :
        OpCondition("OrWhere", OrWhere(qb, sId, input, v), OrWhere(other, sId, input, w))

OpHaving ==
    \E v \in ValueInputs, w \in ValueInputs :
        OpCondition("Having", Having(qb, sId, input, v), Having(other, sId, input, w))

OpToSQL ==
    /\ pc = "mutated"
    /\ pc' = "done"
    /\ result' = [CallToSQL(qb).res EXCEPT !.op = result.op]
    /\ UNCHANGED <<qb, other, port, calls, firstErr, input, chunk>>

NextOperators == OpTable \/ OpWhere \/ OpOrWhere \/ OpHaving \/ OpToSQL

SpecOperators == InitOperators /\ [][NextOperators]_vars

\* the operators the whitelist names
WhitelistedOperators ==
    { <<"=">>, <<"!","=">>, <<"<",">">>, <<"<">>, <<">">>, <<"<","=">>, <<">","=">>, <<"L","I","K","E">>, <<"N","O","T"," ","L","I","K","E">>, <<"I","N">>, <<"N","O","T"," ","I","N">>,
      <<"B","E","T","W","E","E","N">>, <<"I","S"," ","N","U","L","L">>, <<"I","S"," ","N","O","T"," ","N","U","L","L">>, <<"R","E","G","E","X","P">> }

\* simple case folding: the ASCII letters fold to lower case, the long s
\* folds to s, and the dotless i folds to nothing but itself
FoldChar(c) == IF c = LongS THEN "s" ELSE ToLowerChar(c)

\* a and b are the same but for the case of their letters
EqualFold(a, b) ==
    /\ Len(a) = Len(b)
    /\ \A i \in 1..Len(a) : FoldChar(a[i]) = FoldChar(b[i])

Whitelisted(op) == \E w \in WhitelistedOperators : EqualFold(op, w)

InvalidOperatorFormats ==
    { "invalid operator in WHERE: %q", "invalid operator in OrWhere: %q",
      "invalid operator in Having: %q" }

\* the conditions the mutator result.op appends to
ConditionsOf(b) == IF result.op = "Having" THEN b.having ELSE b.whereConds

\* C8: Where, OrWhere and Having accept an operator exactly when it is, but for
\* letter case, one of the fifteen whitelisted operators: then the condition
\* is added and ToSQL succeeds; for every other operator string no condition
\* is added and ToSQL fails with an "invalid operator" error.
C8_OperatorWhitelistExact ==
    pc = "done" =>
        IF Whitelisted(input)
        THEN /\ result.err = NoErr
             /\ Len(ConditionsOf(qb)) = 1
             /\ ConditionsOf(qb)[1].operator = input
        ELSE /\ result.err.format \in InvalidOperatorFormats
             /\ result.err.arg = input
             /\ result.sql = <<>>
             /\ ConditionsOf(qb) = <<>>

\* C4: whenever ToSQL succeeds, the returned SQL text holds as many ? characters
\* as the returned parameter list has elements.
C4_PlaceholdersMatchParams ==
    (pc = "done" /\ result.err = NoErr) =>
        CountChar(result.sql, "?") = Len(result.params)

\* C5: values are never interpolated into the SQL text: two builders built by
\* the same calls with different value arguments assemble to the same text.
C5_ValuesNotInText ==
    pc = "done" => ToSQL(qb).sql = ToSQL(other).sql

(***************************************************************************)
(* Join conditions.  SpecJoin draws an ON text, sets a valid table on a    *)
(* fresh builder, adds one join with that text and assembles.              *)
(***************************************************************************)
MaxJoinTokens == 3

JoinTokens ==
    { <<"a",".","b">>, <<"c">>, <<"=">>, <<" ">>, <<"A","N","D">>, <<"O","R">>, <<"1">>, <<"(">>, <<")">>, <<"<">>, <<";">>, <<"-","-">> }

\* the concatenations of at most n tokens
RECURSIVE TokenStrings(_, _)
TokenStrings(tokens, n) ==
    IF n = 0 THEN {<<>>}
    ELSE LET shorter == TokenStrings(tokens, n - 1)
         IN shorter \cup {s \o t : s \in shorter, t \in tokens}

LongJoinInputs ==
    { <<"u","s","e","r","s",".","i","d"," ","="," ","p","o","s","t","s",".","u","i","d">>, <<"u","s","e","r","s",".","i","d","=","p","o","s","t","s",".","u","i","d">>,
      <<"a",".","b"," ","="," ","c",".","d"," ","A","N","D"," ","e",".","f"," ","="," ","g",".","h">>, <<"a",".","b"," ","="," ","c",".","d"," ","O","R"," ","e",".","f"," ","="," ","g",".","h">>,
      <<"a",".","b"," ","="," ","c",".","d"," ","A","N","D"," ","e",".","f"," ","="," ","g",".","h"," ","O","R"," ","i",".","j"," ","="," ","k",".","l">>,
      <<"a",".","b","\t","=","\n","c",".","d">>,
      <<"u","s","e","r","s",".","i","d"," ","="," ","p","o","s","t","s",".","u","i","d",";"," ","D","R","O","P"," ","T","A","B","L","E"," ","u","s","e","r","s",";","-","-">>,
      <<"u","s","e","r","s",".","i","d"," ","="," ","p","o","s","t","s",".","u","i","d",";"," ","-","-">>, <<"a",".","b"," ","="," ","c",".","d"," ","-","-"," ","x">>, <<"a",".","b"," ","="," ","c",".","d"," ","/","*"," ","x"," ","*","/">>,
      <<"a",".","b"," ","="," ","c",".","d","#">>, <<"a",".","b"," ","="," ","1">>, <<"a",".","b"," ","="," ","'","x","'">>, <<"1"," ","="," ","1">>, <<"a",".","b"," ","="," ","c",".","d"," ","O","R"," ","1"," ","="," ","1">>,
      <<"(","a",".","b"," ","="," ","c",".","d",")">>, <<"a",".","b"," ","="," ","(","c",".","d",")">>, <<"a",".","b"," ","="," ","c",".","d"," ","A","N","D"," ","(","e",".","f"," ","="," ","g",".","h",")">>,
      <<"a",".","b"," ","<"," ","c",".","d">>, <<"a",".","b"," ","<",">"," ","c",".","d">>, <<"a",".","b"," ","=","="," ","c",".","d">>, <<"a",".","b"," ",">","="," ","c",".","d">>, <<"a",".","b"," ","L","I","K","E"," ","c",".","d">>,
      <<"a",".","b"," ","="," ","c",".","d"," ","a","n","d"," ","e",".","f"," ","="," ","g",".","h">>, <<"a",".","b"," ","="," ","c",".","d"," ","A","N","D","e",".","f"," ","="," ","g",".","h">>, <<"a",".","b"," ","="," ","c",".","d"," ","A","N","D">>,
      <<"a",".","b"," ","="," ","c",".","d"," ","A","N","D"," ","A","N","D"," ","e",".","f"," ","="," ","g",".","h">>, <<"a",".","b"," ","="," ","c",".","d",","," ","e",".","f"," ","="," ","g",".","h">>,
      <<"a"," ","="," ","b">>, <<"a",".","b"," ","="," ","c">>, <<"a",".","b",".","c"," ","="," ","d",".","e">>, <<"a",".","b"," ","="," ","c",".","d",".","e">>, <<"1","a",".","b"," ","="," ","c",".","d">>,
      <<"a",".","b"," ","="," ","c",".","d"," ">>, <<" ","a",".","b"," ","="," ","c",".","d">>, <<"a",".","b"," ","=", " ","c",".","d","\n">> }

JoinInputs == TokenStrings(JoinTokens, MaxJoinTokens) \cup LongJoinInputs

InitJoin ==
    /\ input \in JoinInputs
    /\ qb = NewQueryBuilder("pool")
    /\ other = NewQueryBuilder("pool")
    /\ result = NoResult
    /\ port = <<>>
    /\ calls = 0
    /\ pc = "new"
    /\ firstErr = NoErr
    /\ chunk = NoChunk

JoinTable ==
    /\ pc = "new"
    /\ pc' = "tabled"
    /\ qb' = Table(qb, sUsers)
    /\ calls' = calls + 1
    /\ UNCHANGED <<other, result, port, firstErr, input, chunk>>

\* one join with the ON text input
JoinCall(op, nb) ==
    /\ pc = "tabled"
    /\ pc' = "mutated"
    /\ qb' = nb
    /\ calls' = calls + 1
    /\ firstErr' = nb.err
    /\ result' = [NoResult EXCEPT !.op = op]
    /\ UNCHANGED <<other, port, input, chunk>>

JoinInner == JoinCall("Join", InnerJoin(qb, sPosts, input))

JoinLeft == JoinCall("LeftJoin", LeftJoin(qb, sPosts, input))

JoinRight == JoinCall("RightJoin", RightJoin(qb, sPosts, input))

JoinToSQL ==
    /\ pc = "mutated"
    /\ pc' = "done"
    /\ result' = [CallToSQL(qb).res EXCEPT !.op = result.op]
    /\ UNCHANGED <<qb, other, port, calls, firstErr, input, chunk>>

NextJoin == JoinTable \/ JoinInner \/ JoinLeft \/ JoinRight \/ JoinToSQL

SpecJoin == InitJoin /\ [][NextJoin]_vars

\* s without the whitespace at its two ends
RECURSIVE Trim(_)
Trim(s) ==
    IF Len(s) > 0 /\ s[1] \in Whitespace THEN Trim(Tail(s))
    ELSE IF Len(s) > 0 /\ s[Len(s)] \in Whitespace THEN Trim(SubSeq(s, 1, Len(s) - 1))
    ELSE s

\* identifier.identifier
QualifiedIdentifier(s) ==
    \E k \in 1..Len(s) :
        s[k] = "." /\ IsWord(SubSeq(s, 1, k - 1)) /\ IsWord(SubSeq(s, k + 1, Len(s)))

\* qualified.identifier = qualified.identifier
EqualityComparison(s) ==
    \E k \in 1..Len(s) :
        /\ s[k] = "="
        /\ QualifiedIdentifier(Trim(SubSeq(s, 1, k - 1)))
        /\ QualifiedIdentifier(Trim(SubSeq(s, k + 1, Len(s))))

RECURSIVE ComparisonChain(_)
\* one comparison, or a comparison, AND or OR between whitespace, and a chain
ComparisonChain(s) ==
    \/ EqualityComparison(s)
    \/ \E i \in 2..Len(s), j \in 2..Len(s) :
          /\ i < j
          /\ s[i - 1] \in Whitespace
          /\ SubSeq(s, i, j - 1) \in {kwAND, kwOR}
          /\ j <= Len(s)
          /\ s[j] \in Whitespace
          /\ EqualityComparison(SubSeq(s, 1, i - 1))
          /\ ComparisonChain(SubSeq(s, j, Len(s)))

\* C9: Join, LeftJoin and RightJoin accept an ON condition only if it is one
\* or more comparisons qualified.identifier = qualified.identifier chained by
\* AND or OR; for any other text no join is added, the sticky error is set
\* and ToSQL fails.
C9_JoinConditionOnlyComparisons ==
    (pc \in {"mutated", "done"} /\ ~ComparisonChain(input)) =>
        /\ qb.joins = <<>>
        /\ qb.err.format \in {"invalid JOIN condition: %q", "invalid LEFT JOIN condition: %q",
                              "invalid RIGHT JOIN condition: %q"}
        /\ pc = "done" => (result.err = qb.err /\ result.sql = <<>>)

\* a valid comparison followed by a statement separator and a comment marker
\* was rejected
C9_Witness ==
    /\ pc = "done"
    /\ input = <<"u","s","e","r","s",".","i","d"," ","="," ","p","o","s","t","s",".","u","i","d",";"," ","-","-">>
    /\ result.op = "LeftJoin"
    /\ qb.joins = <<>>
    /\ result.err = Errorf("invalid LEFT JOIN condition: %q", input)

(***************************************************************************)
(* Chunk iteration, one step per statement handed to the port and per      *)
(* callback invocation.  SpecChunk builds a builder with Table, Select,    *)
(* Where, OrderBy and Union and then runs Chunk or ChunkByID on it against *)
(* a table of chunk.total matching rows that does not change during the    *)
(* iteration.  port holds every statement of the iteration, in order, and  *)
(* chunk.events every step of it.                                          *)
(***************************************************************************)
MaxChunkSize == 2
MaxRows == 2
MaxStatements == 5

Min(a, b) == IF a < b THEN a ELSE b
Max(a, b) == IF a > b THEN a ELSE b

ErrChunkSize == Errorf("chunk size must be positive", <<>>)

\* the copy of the builder Chunk makes for the page at offset
ChunkPage(b, size, offset) ==
    [newQueryBuilderWithDB(b.db, b.rawDB) EXCEPT
        !.table = b.table, !.selectCols = b.selectCols, !.whereConds = b.whereConds,
        !.orderBy = b.orderBy, !.groupBy = b.groupBy, !.having = b.having,
        !.joins = b.joins, !.limitCount = size, !.offsetCount = offset,
        !.includeTrashed = b.includeTrashed]

\* the builder ChunkByID makes for the page after lastID
ChunkByIDPage(b, size, column, lastID) ==
    [newQueryBuilderWithDB(b.db, b.rawDB) EXCEPT
        !.table = b.table, !.selectCols = b.selectCols,
        !.whereConds = Append(b.whereConds,
                              whereCondition(column, opGT, IntV(lastID), "AND", <<>>)),
        !.orderBy = <<column \o <<" ","A","S","C">>>>, !.groupBy = b.groupBy, !.having = b.having,
        !.joins = b.joins, !.limitCount = size, !.includeTrashed = b.includeTrashed]

CurrentPage ==
    IF chunk.kind = "Chunk" THEN ChunkPage(qb, chunk.size, chunk.offset)
    ELSE ChunkByIDPage(qb, chunk.size, chunk.column, chunk.lastID)

\* the rows the port returns for the current page: the ids are 1..total, so
\* every row is after lastID 0
PageRows ==
    IF chunk.kind = "Chunk" THEN Min(chunk.size, Max(chunk.total - chunk.offset, 0))
    ELSE Min(chunk.size, Max(chunk.total - chunk.lastID, 0))

\* history: a step of the iteration under way, with the offset of its page,
\* the rows of that page, and whether the Get succeeded (probe, reexec) or
\* what the callback returned (callback)
ChunkEvent(e, ok) == [e |-> e, offset |-> chunk.offset, rows |-> PageRows, ok |-> ok]

ChunkReturn(err) ==
    /\ pc' = "returned"
    /\ result' = [NoResult EXCEPT !.op = chunk'.kind, !.err = err]

\* Chunk(size, fn) is called: the check of size
ChunkCall ==
    \E size \in (-1)..MaxChunkSize, total \in 0..MaxRows :
        /\ pc = "ready"
        /\ chunk' = [NoChunk EXCEPT !.kind = "Chunk", !.size = size, !.total = total]
        /\ port' = <<>>
        /\ IF size <= 0
           THEN ChunkReturn(ErrChunkSize)
           ELSE pc' = "probe" /\ result' = NoResult
        /\ UNCHANGED <<qb, other, calls, firstErr, input>>

\* the columns SpecChunk hands to ChunkByID
ChunkColumnInputs == ColumnInputs \cup {<<Backtick>>}

\* ChunkByID as it would be if it did not validate the column
ChunkByIDCallUnchecked ==
    \E size \in (-1)..MaxChunkSize, total \in 0..MaxRows, column \in ChunkColumnInputs :
        /\ pc = "ready"
        /\ chunk' = [NoChunk EXCEPT !.kind = "ChunkByID", !.size = size, !.total = total,
                                    !.column = column]
        /\ port' = <<>>
        /\ IF size <= 0
           THEN ChunkReturn(ErrChunkSize)
           ELSE pc' = "probe" /\ result' = NoResult
        /\ UNCHANGED <<qb, other, calls, firstErr, input>>

\* ChunkByID(size, column, fn) is called: the checks of size and column
ChunkByIDCall ==
    \E size \in (-1)..MaxChunkSize, total \in 0..MaxRows, column \in ChunkColumnInputs :
        /\ pc = "ready"
        /\ chunk' = [NoChunk EXCEPT !.kind = "ChunkByID", !.size = size, !.total = total,
                                    !.column = column]
        /\ port' = <<>>
        /\ IF size <= 0
           THEN ChunkReturn(ErrChunkSize)
           ELSE IF isValidIdentifierPanics(column)
           THEN pc' = "panicked" /\ result' = NoResult
           ELSE IF ~isValidIdentifier(column)
           THEN ChunkReturn(Errorf("invalid column name: %q", column))
           ELSE pc' = "probe" /\ result' = NoResult
        /\ UNCHANGED <<qb, other, calls, firstErr, input>>

\* the first Get of a page, which looks for a row
ChunkProbe ==
    \E ok \in BOOLEAN :
        LET o == Get(CurrentPage, ok) IN
        /\ pc = "probe"
        /\ Len(port) < MaxStatements
        /\ port' = port \o o.stmts
        /\ chunk' = [chunk EXCEPT !.events = Append(@, ChunkEvent("probe", o.res.err = NoErr))]
        /\ IF o.res.err # NoErr THEN ChunkReturn(o.res.err)
           ELSE IF PageRows = 0 THEN ChunkReturn(NoErr)
           ELSE pc' = "reexec" /\ result' = result
        /\ UNCHANGED <<qb, other, calls, firstErr, input>>

\* the second Get as it would be if its error were not looked at
ChunkReexecIgnoringError ==
    \E ok \in BOOLEAN :
        LET o == Get(CurrentPage, ok) IN
        /\ pc = "reexec"
        /\ port' = port \o o.stmts
        /\ chunk' = [chunk EXCEPT !.events = Append(@, ChunkEvent("reexec", o.res.err = NoErr))]
        /\ pc' = "callback" /\ result' = result
        /\ UNCHANGED <<qb, other, calls, firstErr, input>>

\* the second Get of a page, whose rows go to the callback
ChunkReexec ==
    \E ok \in BOOLEAN :
        LET o == Get(CurrentPage, ok) IN
        /\ pc = "reexec"
        /\ port' = port \o o.stmts
        /\ chunk' = [chunk EXCEPT !.events = Append(@, ChunkEvent("reexec", o.res.err = NoErr))]
        /\ IF o.res.err # NoErr THEN ChunkReturn(o.res.err)
           ELSE pc' = "callback" /\ result' = result
        /\ UNCHANGED <<qb, other, calls, firstErr, input>>

\* the callback step as it would be if Chunk did not advance the offset
ChunkCallbackKeepingOffset ==
    \E shouldContinue \in BOOLEAN :
        /\ pc = "callback"
        /\ chunk' = [chunk EXCEPT
                        !.callbacks = @ + 1,
                        !.events = Append(@, ChunkEvent("callback", shouldContinue))]
        /\ IF ~shouldContinue THEN ChunkReturn(NoErr)
           ELSE pc' = "probe" /\ result' = result
        /\ UNCHANGED <<qb, other, port, calls, firstErr, input>>

\* the callback step as it would be if ChunkByID moved lastID to the last id
\* of the page
ChunkCallbackAdvancingCursor ==
    \E shouldContinue \in BOOLEAN :
        /\ pc = "callback"
        /\ chunk' = [chunk EXCEPT
                        !.callbacks = @ + 1,
                        !.events = Append(@, ChunkEvent("callback", shouldContinue)),
                        !.offset = IF shouldContinue /\ chunk.kind = "Chunk"
                                   THEN @ + chunk.size ELSE @,
                        !.lastID = IF shouldContinue /\ chunk.kind = "ChunkByID"
                                   THEN @ + PageRows ELSE @]
        /\ IF ~shouldContinue THEN ChunkReturn(NoErr)
           ELSE pc' = "probe" /\ result' = result
        /\ UNCHANGED <<qb, other, port, calls, firstErr, input>>

\* fn(rows) and what follows it: Chunk advances the offset, ChunkByID nothing
ChunkCallback ==
    \E shouldContinue \in BOOLEAN :
        /\ pc = "callback"
        /\ chunk' = [chunk EXCEPT
                        !.callbacks = @ + 1,
                        !.events = Append(@, ChunkEvent("callback", shouldContinue)),
                        !.offset = IF shouldContinue /\ chunk.kind = "Chunk"
                                   THEN @ + chunk.size ELSE @]
        /\ IF ~shouldContinue THEN ChunkReturn(NoErr)
           ELSE pc' = "probe" /\ result' = result
        /\ UNCHANGED <<qb, other, port, calls, firstErr, input>>

NextChunk ==
    \/ DoTable \/ DoSelect \/ DoWhere \/ DoOrderBy \/ DoUnion
    \/ ChunkCall \/ ChunkByIDCall \/ ChunkProbe \/ ChunkReexec \/ ChunkCallback

SpecChunk == Init /\ [][NextChunk]_vars

\* C3: a validation error recorded on the builder is not discarded by chunk
\* iteration: Chunk and ChunkByID, called with a positive size (and a valid
\* column) on a builder on which a mutator has failed, return that error, hand
\* no statement to the execution port and never invoke the callback.
C3_ChunkSurfacesStickyError ==
    (chunk.kind # "none" /\ chunk.size > 0 /\ qb.err # NoErr
        /\ (chunk.kind = "ChunkByID" => isValidIdentifier(chunk.column))) =>
        /\ port = <<>>
        /\ chunk.callbacks = 0
        /\ pc = "returned" => result.err = qb.err

(***************************************************************************)
(* Call order.  SpecOrder makes the same mutator calls on the builders qb  *)
(* and other; two calls that belong to different clauses are made in one   *)
(* order on qb and in the opposite order on other.  input holds the last   *)
(* pair of calls made in opposite orders.                                  *)
(***************************************************************************)
MaxOrderCalls == 3

Call(m, clause, a, b) == [m |-> m, clause |-> clause, a |-> a, b |-> b]

\* the successful calls SpecOrder draws from, each with the clause it belongs to
OrderCalls ==
    { Call("Table", "FROM", sUsers, <<>>),
      Call("Select", "SELECT", sName, <<>>),
      Call("Join", "JOIN", sPosts, sOnUsersPosts),
      Call("LeftJoin", "JOIN", sPosts, sOnUsersPosts),
      Call("Where", "WHERE", sId, opEQ),
      Call("OrWhere", "WHERE", sName, opGT),
      Call("WhereIn", "WHERE", sId, <<>>),
      Call("WhereNull", "WHERE", sName, <<>>),
      Call("GroupBy", "GROUP BY", sName, <<>>),
      Call("Having", "HAVING", countExpr, opGT),
      Call("OrderBy", "ORDER BY", sId, sDESC),
      Call("OrderBy", "ORDER BY", sName, <<>>),
      Call("Limit", "LIMIT", <<>>, <<>>),
      Call("Offset", "OFFSET", <<>>, <<>>),
      Call("Union", "UNION", <<>>, <<>>),
      Call("UnionAll", "UNION", <<>>, <<>>) }

\* the builder after the call c
Apply(b, c) ==
    CASE c.m = "Table" -> Table(b, c.a)
      [] c.m = "Select" -> Select(b, <<c.a>>)
      [] c.m = "Join" -> InnerJoin(b, c.a, c.b)
      [] c.m = "LeftJoin" -> LeftJoin(b, c.a, c.b)
      [] c.m = "Where" -> Where(b, c.a, c.b, IntV(1))
      [] c.m = "OrWhere" -> OrWhere(b, c.a, c.b, IntV(2))
      [] c.m = "WhereIn" -> WhereIn(b, c.a, <<IntV(3), IntV(4)>>)
      [] c.m = "WhereNull" -> WhereNull(b, c.a)
      [] c.m = "GroupBy" -> GroupBy(b, <<c.a>>)
      [] c.m = "Having" -> Having(b, c.a, c.b, IntV(5))
      [] c.m = "OrderBy" -> OrderBy(b, c.a, c.b)
      [] c.m = "Limit" -> Limit(b, 10)
      [] c.m = "Offset" -> Offset(b, 20)
      [] c.m = "Union" -> Union(b, Table(NewQueryBuilder("pool"), sPosts))
      [] c.m = "UnionAll" -> UnionAll(b, Where(Table(NewQueryBuilder("pool"), sPosts),
                                               sId, opEQ, IntV(6)))

\* one call, made on both builders
OrderSame ==
    \E c \in OrderCalls :
        /\ pc = "ready"
        /\ calls < MaxOrderCalls
        /\ calls' = calls + 1
        /\ qb' = Apply(qb, c)
        /\ other' = Apply(other, c)
        /\ result' = NoResult
        /\ UNCHANGED <<port, pc, firstErr, input, chunk>>

\* two calls of different clauses: c then d on qb, d then c on other
OrderSwapped ==
    \E c \in OrderCalls, d \in OrderCalls :
        /\ pc = "ready"
        /\ c.clause # d.clause
        /\ calls + 2 <= MaxOrderCalls
        /\ calls' = calls + 2
        /\ qb' = Apply(Apply(qb, c), d)
        /\ other' = Apply(Apply(other, d), c)
        /\ input' = <<c, d>>
        /\ result' = NoResult
        /\ UNCHANGED <<port, pc, firstErr, chunk>>

OrderToSQL ==
    /\ pc = "ready"
    /\ result.op = "none"
    /\ result' = CallToSQL(qb).res
    /\ UNCHANGED <<qb, other, port, calls, pc, firstErr, input, chunk>>

NextOrder == OrderSame \/ OrderSwapped \/ OrderToSQL

SpecOrder == Init /\ [][NextOrder]_vars

\* s[i..] starts with sub
StartsAt(s, i, sub) == i + Len(sub) - 1 <= Len(s) /\ SubSeq(s, i, i + Len(sub) - 1) = sub

\* the position of the first occurrence of sub in s, 0 when there is none
IndexOf(s, sub) ==
    IF \E i \in 1..Len(s) : StartsAt(s, i, sub)
    THEN CHOOSE i \in 1..Len(s) :
            StartsAt(s, i, sub) /\ \A j \in 1..(i - 1) : ~StartsAt(s, j, sub)
    ELSE 0

\* the statement's own clauses: the text before the union
BeforeUnion(s) ==
    IF IndexOf(s, <<" ","U","N","I","O","N">>) = 0 THEN s ELSE SubSeq(s, 1, IndexOf(s, <<" ","U","N","I","O","N">>) - 1)

\* the clause keywords in the order of the assembly
ClauseKeywords ==
    << <<"S","E","L","E","C","T"," ">>, <<" ","F","R","O","M"," ">>, <<" ","J","O","I","N"," ">>, <<" ","W","H","E","R","E"," ">>, <<" ","G","R","O","U","P"," ","B","Y"," ">>, <<" ","H","A","V","I","N","G"," ">>, <<" ","O","R","D","E","R"," ","B","Y"," ">>,
       <<" ","L","I","M","I","T"," ">>, <<" ","O","F","F","S","E","T"," ">> >>

\* the clauses the builder's fields call for
ClausePresent(b) ==
    << TRUE, TRUE, Len(b.joins) > 0, Len(b.whereConds) > 0, Len(b.groupBy) > 0,
       Len(b.having) > 0, Len(b.orderBy) > 0, b.limitCount > 0, b.offsetCount > 0 >>

\* every clause called for is in the text, no other is, and they are in order
ClausesInOrder(b, sql) ==
    LET own == BeforeUnion(sql)
        at == [i \in 1..Len(ClauseKeywords) |-> IndexOf(own, ClauseKeywords[i])]
    IN /\ at[1] = 1
       /\ \A i \in 1..Len(ClauseKeywords) : (at[i] > 0) <=> ClausePresent(b)[i]
       /\ \A i \in 1..Len(ClauseKeywords), j \in 1..Len(ClauseKeywords) :
             (i < j /\ at[i] > 0 /\ at[j] > 0) => at[i] < at[j]
       /\ (b.unionQuery # <<>>) <=> (own # sql)

\* C10: the clause order is fixed by the assembler and independent of the call
\* order: the text ToSQL returns has its clauses in the order SELECT, FROM,
\* JOINs, WHERE, GROUP BY, HAVING, ORDER BY, LIMIT, OFFSET, UNION, and the same
\* successful calls, made with calls of different clauses in another order,
\* assemble to the same text and the same parameter list.
C10_ClauseOrderFixed ==
    /\ ToSQL(qb) = ToSQL(other)
    /\ (result.op = "ToSQL" /\ result.err = NoErr) => ClausesInOrder(qb, result.sql)

\* OrderBy was called before Where on one builder and after it on the other,
\* and the builder with a table assembled
C10_Witness ==
    /\ Len(input) = 2
    /\ input[1].clause = "ORDER BY"
    /\ input[2].clause = "WHERE"
    /\ qb.table = sUsers
    /\ result.op = "ToSQL"
    /\ result.err = NoErr

(***************************************************************************)
(* WHERE and HAVING conditions and the parameter list.  SpecWhere calls    *)
(* the where-mutators, Having and Union on one builder, the k-th call with *)
(* values numbered from 10 * k, and assembles.  input is the list of the   *)
(* calls made, failed ones included.                                       *)
(***************************************************************************)
MaxWhereCalls == 3

opLike == <<"l","i","k","e">>

\* a call: the mutator, its column and operator, its values in argument order;
\* for a union, the parameters and the error of the child's own assembly
WhereCall(m, column, operator, values, err) ==
    [m |-> m, column |-> column, operator |-> operator, values |-> values, err |-> err]

\* the value arguments of the next call
NextValue(j) == IntV(10 * (calls + 1) + j)

\* the operators SpecWhere hands to Where, OrWhere and Having
WhereOperatorInputs == {opEQ, opLike, opISNULL}

\* the builders SpecWhere hands to Union and UnionAll, each with the parameters
\* and the error its own ToSQL returns
UnionChildInputs ==
    { [b |-> Table(NewQueryBuilder("pool"), sPosts), params |-> <<>>, err |-> NoErr],
      [b |-> WhereIn(Where(Table(NewQueryBuilder("pool"), sPosts), sId, opGT, IntV(7)),
                     sName, <<IntV(8), IntV(9)>>),
       params |-> <<IntV(7), IntV(8), IntV(9)>>, err |-> NoErr],
      [b |-> Where(NewQueryBuilder("pool"), sId, opEQ, IntV(7)),
       params |-> <<>>, err |-> ErrTableRequired],
      [b |-> Where(Table(NewQueryBuilder("pool"), sPosts), sBadColumn, opEQ, IntV(7)),
       params |-> <<>>, err |-> Errorf("invalid column name in WHERE: %q", sBadColumn)] }

\* a mutator call c that returns the builder nb
WhereStep(c, nb) ==
    /\ pc = "ready"
    /\ result.op = "none"
    /\ calls < MaxWhereCalls
    /\ calls' = calls + 1
    /\ qb' = nb
    /\ input' = Append(input, c)
    /\ UNCHANGED <<other, result, port, pc, firstErr, chunk>>

WhTable ==
    /\ pc = "ready"
    /\ result.op = "none"
    /\ qb.table = <<>>
    /\ qb' = Table(qb, sUsers)
    /\ UNCHANGED <<other, result, port, calls, pc, firstErr, input, chunk>>

WhWhere ==
    \E c \in ColumnInputs, o \in WhereOperatorInputs :
        WhereStep(WhereCall("Where", c, o, <<NextValue(0)>>, NoErr),
                  Where(qb, c, o, NextValue(0)))

WhOrWhere ==
    \E o \in WhereOperatorInputs :
        WhereStep(WhereCall("OrWhere", sName, o, <<NextValue(0)>>, NoErr),
                  OrWhere(qb, sName, o, NextValue(0)))

WhWhereIn ==
    \E n \in 0..2 :
        LET values == [j \in 1..n |-> NextValue(j)]
        IN WhereStep(WhereCall("WhereIn", sId, <<>>, values, NoErr), WhereIn(qb, sId, values))

WhWhereBetween ==
    WhereStep(WhereCall("WhereBetween", sId, <<>>, <<NextValue(1), NextValue(2)>>, NoErr),
              WhereBetween(qb, sId, NextValue(1), NextValue(2)))

WhWhereNull ==
    WhereStep(WhereCall("WhereNull", sName, <<>>, <<>>, NoErr), WhereNull(qb, sName))

WhWhereNotNull ==
    WhereStep(WhereCall("WhereNotNull", sName, <<>>, <<>>, NoErr), WhereNotNull(qb, sName))

WhHaving ==
    \E o \in WhereOperatorInputs :
        WhereStep(WhereCall("Having", countExpr, o, <<NextValue(0)>>, NoErr),
                  Having(qb, countExpr, o, NextValue(0)))

WhUnion ==
    \E u \in UnionChildInputs :
        WhereStep(WhereCall("Union", <<>>, <<>>, u.params, u.err), Union(qb, u.b))

WhUnionAll ==
    \E u \in UnionChildInputs :
        WhereStep(WhereCall("UnionAll", <<>>, <<>>, u.params, u.err), UnionAll(qb, u.b))

WhToSQL ==
    /\ pc = "ready"
    /\ result.op = "none"
    /\ qb' = CallToSQL(qb).b
    /\ result' = CallToSQL(qb).res
    /\ UNCHANGED <<other, port, calls, pc, firstErr, input, chunk>>

\* ToSQL called again, right after ToSQL
WhToSQLAgain ==
    /\ pc = "ready"
    /\ result.op = "ToSQL"
    /\ qb' = CallToSQL(qb).b
    /\ result' = [CallToSQL(qb).res EXCEPT !.op = "ToSQL again"]
    /\ UNCHANGED <<other, port, calls, pc, firstErr, input, chunk>>

NextWhere ==
    \/ WhTable \/ WhWhere \/ WhOrWhere \/ WhWhereIn \/ WhWhereBetween \/ WhWhereNull
    \/ WhWhereNotNull \/ WhHaving \/ WhUnion \/ WhUnionAll \/ WhToSQL \/ WhToSQLAgain

SpecWhere == Init /\ [][NextWhere]_vars

\* the calls of the list that add a WHERE condition
IsWhereCall(c) ==
    c.m \in {"Where", "OrWhere", "WhereIn", "WhereBetween", "WhereNull", "WhereNotNull"}

IsHavingCall(c) == c.m = "Having"

IsUnionCall(c) == c.m \in {"Union", "UnionAll"}

\* n placeholders separated by a comma and a space
RECURSIVE Placeholders(_)
Placeholders(n) ==
    IF n = 0 THEN <<>> ELSE IF n = 1 THEN <<"?">> ELSE <<"?",","," ">> \o Placeholders(n - 1)

\* the text one where-mutator call stands for
Fragment(c) ==
    CASE c.m = "WhereIn" -> c.column \o <<" ","I","N"," ","(">> \o Placeholders(Len(c.values)) \o <<")">>
      [] c.m = "WhereBetween" -> c.column \o <<" ","B","E","T","W","E","E","N"," ","?"," ","A","N","D"," ","?">>
      [] c.m = "WhereNull" -> c.column \o <<" ","I","S"," ","N","U","L","L">>
      [] c.m = "WhereNotNull" -> c.column \o <<" ","I","S"," ","N","O","T"," ","N","U","L","L">>
      [] OTHER -> IF c.operator \in {opISNULL, opISNOTNULL}
                  THEN c.column \o <<" ">> \o c.operator
                  ELSE c.column \o <<" ">> \o c.operator \o <<" ","?">>

Connective(c) == IF c.m = "OrWhere" THEN <<" ","O","R"," ">> ELSE <<" ","A","N","D"," ">>

\* the conditions cs, the first without its connective
RECURSIVE ConditionList(_)
ConditionList(cs) ==
    IF Len(cs) = 0 THEN <<>>
    ELSE IF Len(cs) = 1 THEN Fragment(cs[1])
    ELSE ConditionList(SubSeq(cs, 1, Len(cs) - 1))
         \o Connective(cs[Len(cs)]) \o Fragment(cs[Len(cs)])

\* the statement up to the end of its WHERE clause, for the calls made
ThroughWhere(log) ==
    LET cs == SelectSeq(log, IsWhereCall)
    IN <<"S","E","L","E","C","T"," ","*"," ","F","R","O","M"," ","u","s","e","r","s">> \o (IF Len(cs) = 0 THEN <<>> ELSE <<" ","W","H","E","R","E"," ">> \o ConditionList(cs))

\* C11: the WHERE clause is the first condition's fragment followed, for each
\* later condition, by OR when OrWhere added it and AND otherwise, then its
\* fragment; the first condition's connective is not written; WhereIn writes
\* one placeholder per value, WhereBetween two, WhereNull and WhereNotNull none.
C11_WhereClauseRendering ==
    (result.op = "ToSQL" /\ result.err = NoErr) =>
        LET head == ThroughWhere(input)
            rest == SubSeq(result.sql, Len(head) + 1, Len(result.sql))
        IN /\ StartsAt(result.sql, 1, head)
           /\ \/ rest = <<>>
              \/ StartsAt(rest, 1, <<" ","H","A","V","I","N","G"," ">>)
              \/ StartsAt(rest, 1, <<" ","U","N","I","O","N">>)

\* an OrWhere added first, then a WhereIn of two values and a Where, assembled
C11_Witness ==
    /\ result.op = "ToSQL"
    /\ result.err = NoErr
    /\ Len(input) = 3
    /\ input[1].m = "OrWhere"
    /\ input[2].m = "WhereIn" /\ Len(input[2].values) = 2
    /\ input[3].m = "Where"

\* the values of the calls cs, in the order of the calls
RECURSIVE ValuesOf(_)
ValuesOf(cs) ==
    IF Len(cs) = 0 THEN <<>>
    ELSE (IF cs[1].m \in {"Where", "OrWhere"} /\ cs[1].operator \in {opISNULL, opISNOTNULL}
          THEN <<>> ELSE cs[1].values)
         \o ValuesOf(Tail(cs))

\* the Union or UnionAll call in force: the last one made
LastUnion(log) ==
    LET us == SelectSeq(log, IsUnionCall) IN IF Len(us) = 0 THEN <<>> ELSE <<us[Len(us)]>>

RejectedInputs == {sBadTable, sBadColumn, sBadOperator, sBadOn, sBadDirection}

TableCheckedTerminals == {"ToSQL", "Get", "Insert", "Update", "Delete"}

\* C14: the missing-table check is deferred to assembly: no mutator fails for
\* want of a table (every recorded error names a rejected argument), and the
\* clauses accumulated are in the text once a table is set; ToSQL, Get, Insert,
\* Update and Delete on a builder with no sticky error and no table fail with
\* "table name is required", return no SQL and no parameters and reach no
\* port; with a sticky error, the sticky error is the one returned.
C14_MissingTableDeferred ==
    /\ qb.err # NoErr => qb.err.arg \in RejectedInputs
    /\ result.op \in TableCheckedTerminals =>
          /\ (qb.err = NoErr /\ qb.table = <<>>) =>
                /\ result.err = ErrTableRequired
                /\ result.sql = <<>>
                /\ result.params = <<>>
                /\ port = <<>>
          /\ qb.err # NoErr => result.err = qb.err
    /\ (result.op = "ToSQL" /\ result.err = NoErr) => ClausesInOrder(qb, result.sql)

\* a Delete on a builder that holds a condition and has no table
C14_Witness ==
    /\ result.op = "Delete"
    /\ qb.table = <<>>
    /\ qb.err = NoErr
    /\ Len(qb.whereConds) = 1
    /\ result.err = ErrTableRequired
    /\ port = <<>>

\* the columns of ChunkColumnInputs that are not valid identifiers
InvalidChunkColumns == {sBadColumn, <<Backtick>>}

MaxTxCalls == 3

\* the database handles: no connection, the pool, the transaction Begin
\* returns, and the transaction a Begin made inside the callback returns
NilDB == "nil"
Pool == "pool"
TxHandle == "tx"
InnerTxHandle == "tx2"

ErrNoConnection == Errorf("cannot start transaction: no database connection", <<>>)
ErrBegin == Errorf("begin error", <<>>)
ErrCommit == Errorf("commit error", <<>>)
ErrRollback == Errorf("rollback error", <<>>)
ErrCallback == Errorf("callback error", <<>>)

\* HasMany as it would be if the related builder ran on the pool
HasManyOnPool(b, relatedTable, foreignKey, id) ==
    Where(Table(newQueryBuilderWithDB(b.rawDB, b.rawDB), relatedTable), foreignKey, opEQ, id)

\* HasMany(relatedTable, foreignKey, id)
HasMany(b, relatedTable, foreignKey, id) ==
    Where(Table(newQueryBuilderWithDB(b.db, b.rawDB), relatedTable), foreignKey, opEQ, id)

\* BelongsTo as it would be if the related builder started from the parent's clauses
BelongsToKeepingParent(b, relatedTable, foreignKey, fkValue) ==
    Where(Table(b, relatedTable), sId, opEQ, fkValue)

\* BelongsTo(relatedTable, foreignKey, fkValue)
BelongsTo(b, relatedTable, foreignKey, fkValue) ==
    Where(Table(newQueryBuilderWithDB(b.db, b.rawDB), relatedTable), sId, opEQ, fkValue)

\* the builders SpecTx calls Transaction on
ParentInputs ==
    { NewQueryBuilder(Pool),
      NewQueryBuilder(NilDB),
      UnionAll(Limit(OrderBy(InnerJoin(Where(Table(NewQueryBuilder(Pool), sUsers),
                                             sId, opEQ, IntV(1)),
                                       sPosts, sOnUsersPosts),
                             sId, sDESC), 10),
               Table(NewQueryBuilder(Pool), sPosts)),
      Where(Table(NewQueryBuilder(Pool), sUsers), sBadColumn, opEQ, IntV(1)) }

\* no child builder: Transaction has not created one
NoChild == newQueryBuilderWithDB(NilDB, NilDB)

InitTx ==
    /\ qb \in ParentInputs
    /\ other = NoChild
    /\ result = NoResult
    /\ port = <<>>
    /\ calls = 0
    /\ pc = "ready"
    /\ firstErr = NoErr
    /\ input = NoErr
    /\ chunk = NoChunk

TransactionReturn(err) ==
    /\ pc' = "done"
    /\ result' = [NoResult EXCEPT !.op = "Transaction", !.err = err]

\* Transaction as it would be if it went on after a failed Begin
TransactionCallIgnoringBeginError ==
    \E ok \in BOOLEAN :
        /\ pc = "ready"
        /\ IF qb.rawDB = NilDB
           THEN /\ TransactionReturn(ErrNoConnection)
                /\ UNCHANGED <<port, other>>
           ELSE /\ port' = Append(port, Stmt("Begin", qb.rawDB, <<>>, <<>>))
                /\ other' = newQueryBuilderWithDB(TxHandle, qb.rawDB)
                /\ pc' = "callback"
                /\ result' = result
        /\ firstErr' = IF qb.rawDB # NilDB /\ ~ok THEN ErrBegin ELSE NoErr
        /\ UNCHANGED <<qb, calls, input, chunk>>

\* Transaction(fn) up to the call of fn: the check of rawDB, Begin, the child
TransactionCall ==
    \E ok \in BOOLEAN :
        /\ pc = "ready"
        /\ IF qb.rawDB = NilDB
           THEN /\ TransactionReturn(ErrNoConnection)
                /\ UNCHANGED <<port, other>>
           ELSE /\ port' = Append(port, Stmt("Begin", qb.rawDB, <<>>, <<>>))
                /\ IF ~ok
                   THEN /\ TransactionReturn(Errorf("failed to begin transaction: %w", <<ErrBegin>>))
                        /\ UNCHANGED other
                   ELSE /\ other' = newQueryBuilderWithDB(TxHandle, qb.rawDB)
                        /\ pc' = "callback"
                        /\ result' = result
        /\ firstErr' = IF qb.rawDB # NilDB /\ ~ok THEN ErrBegin ELSE NoErr
        /\ UNCHANGED <<qb, calls, input, chunk>>

\* a step of the callback: the child becomes nb, the statements go to the port
CallbackStep(panics, nb, stmts) ==
    /\ pc = "callback"
    /\ calls < MaxTxCalls
    /\ calls' = calls + 1
    /\ IF panics
       THEN pc' = "panicked" /\ UNCHANGED <<other, port>>
       ELSE pc' = pc /\ other' = nb /\ port' = port \o stmts
    /\ UNCHANGED <<qb, result, firstErr, input, chunk>>

TxTable ==
    \E t \in {sUsers, <<Backtick>>} : CallbackStep(TablePanics(t), Table(other, t), <<>>)

TxWhere ==
    \E c \in ColumnInputs : CallbackStep(WherePanics(c), Where(other, c, opEQ, IntV(1)), <<>>)

TxGet == \E ok \in BOOLEAN : CallbackStep(FALSE, Get(other, ok).b, Get(other, ok).stmts)

TxFirst == CallbackStep(FALSE, First(other).b, First(other).stmts)

TxCount == \E ok \in BOOLEAN : CallbackStep(FALSE, Count(other, ok).b, Count(other, ok).stmts)

TxInsert ==
    \E d \in DataInputs, ok \in BOOLEAN :
        CallbackStep(DataPanics(other, d), Insert(other, d, ok).b, Insert(other, d, ok).stmts)

TxUpdate ==
    \E d \in DataInputs, ok \in BOOLEAN :
        CallbackStep(DataPanics(other, d), Update(other, d, ok).b, Update(other, d, ok).stmts)

TxDelete == \E ok \in BOOLEAN : CallbackStep(FALSE, Delete(other, ok).b, Delete(other, ok).stmts)

\* a related builder made from the child, and its Get
TxHasMany ==
    \E ok \in BOOLEAN :
        CallbackStep(FALSE, other, Get(HasMany(other, sPosts, sId, IntV(1)), ok).stmts)

TxBelongsTo ==
    \E ok \in BOOLEAN :
        CallbackStep(FALSE, other, Get(BelongsTo(other, sUsers, sId, IntV(1)), ok).stmts)

\* Chunk on the child: the two statements of its first page
TxChunk ==
    \E ok \in BOOLEAN :
        LET probe == Get(ChunkPage(other, 1, 0), TRUE)
            again == Get(ChunkPage(other, 1, 0), ok)
        IN CallbackStep(FALSE, other,
                        IF probe.res.err # NoErr THEN <<>> ELSE probe.stmts \o again.stmts)

TxChunkByID ==
    \E ok \in BOOLEAN :
        LET probe == Get(ChunkByIDPage(other, 1, sId, 0), TRUE)
            again == Get(ChunkByIDPage(other, 1, sId, 0), ok)
        IN CallbackStep(FALSE, other,
                        IF probe.res.err # NoErr THEN <<>> ELSE probe.stmts \o again.stmts)

\* Transaction called on the child, with a callback that returns nil at once
TxNested ==
    \E begun \in BOOLEAN :
        CallbackStep(FALSE, other,
                     IF other.rawDB = NilDB THEN <<>>
                     ELSE <<Stmt("Begin", other.rawDB, <<>>, <<>>)>>
                          \o (IF begun THEN <<Stmt("Commit", InnerTxHandle, <<>>, <<>>)>>
                              ELSE <<>>))

\* the return of fn as it would be if Transaction committed whatever fn returned
TxCallbackReturnAlwaysCommit ==
    \E e \in {NoErr, ErrCallback} :
        /\ pc = "callback"
        /\ input' = e
        /\ pc' = "commit"
        /\ UNCHANGED <<qb, other, result, port, calls, firstErr, chunk>>

\* fn returns nil or an error
TxCallbackReturn ==
    \E e \in {NoErr, ErrCallback} :
        /\ pc = "callback"
        /\ input' = e
        /\ pc' = IF e # NoErr THEN "rollback" ELSE "commit"
        /\ UNCHANGED <<qb, other, result, port, calls, firstErr, chunk>>

\* the rollback as it would be if a failed rollback hid the callback's error
TxRollbackLosingOriginal ==
    \E ok \in BOOLEAN :
        /\ pc = "rollback"
        /\ port' = Append(port, Stmt("Rollback", TxHandle, <<>>, <<>>))
        /\ TransactionReturn(IF ok THEN input
                             ELSE Errorf("rollback failed: %v", <<ErrRollback>>))
        /\ firstErr' = IF ok THEN NoErr ELSE ErrRollback
        /\ UNCHANGED <<qb, other, calls, input, chunk>>

\* tx.Rollback() after fn returned an error
TxRollback ==
    \E ok \in BOOLEAN :
        /\ pc = "rollback"
        /\ port' = Append(port, Stmt("Rollback", TxHandle, <<>>, <<>>))
        /\ TransactionReturn(IF ok THEN input
                             ELSE Errorf("rollback failed: %v (original error: %w)",
                                         <<ErrRollback, input>>))
        /\ firstErr' = IF ok THEN NoErr ELSE ErrRollback
        /\ UNCHANGED <<qb, other, calls, input, chunk>>

\* tx.Commit() after fn returned nil
TxCommit ==
    \E ok \in BOOLEAN :
        /\ pc = "commit"
        /\ port' = Append(port, Stmt("Commit", TxHandle, <<>>, <<>>))
        /\ TransactionReturn(IF ok THEN NoErr
                             ELSE Errorf("failed to commit transaction: %w", <<ErrCommit>>))
        /\ firstErr' = IF ok THEN NoErr ELSE ErrCommit
        /\ UNCHANGED <<qb, other, calls, input, chunk>>

NextTx ==
    \/ TransactionCall
    \/ TxTable \/ TxWhere \/ TxGet \/ TxFirst \/ TxCount \/ TxInsert \/ TxUpdate \/ TxDelete
    \/ TxHasMany \/ TxBelongsTo \/ TxChunk \/ TxChunkByID \/ TxNested
    \/ TxCallbackReturn \/ TxRollback \/ TxCommit

SpecTx == InitTx /\ [][NextTx]_vars

\* the calls of the kind op made on the handle db, in the order made
CallsOn(op, db) == SelectSeq(port, LAMBDA e : e.op = op /\ e.db = db)

\* Begin succeeded: Transaction created the child builder
TxBegun == other # NoChild

\* C15: Transaction finishes the transaction it began exactly once and in the
\* right way: when the callback returned an error, one Rollback and no Commit;
\* when it returned nil, one Commit and no Rollback; and neither before the
\* callback has returned.
C15_TransactionFinishedOnce ==
    /\ pc \in {"callback", "rollback", "commit"} =>
          /\ CallsOn("Commit", TxHandle) = <<>>
          /\ CallsOn("Rollback", TxHandle) = <<>>
    /\ (pc = "done" /\ TxBegun) =>
          IF input # NoErr
          THEN /\ Len(CallsOn("Rollback", TxHandle)) = 1
               /\ CallsOn("Commit", TxHandle) = <<>>
               /\ port[Len(port)].op = "Rollback"
          ELSE /\ Len(CallsOn("Commit", TxHandle)) = 1
               /\ CallsOn("Rollback", TxHandle) = <<>>
               /\ port[Len(port)].op = "Commit"

\* the callback deleted through the child and returned an error; the
\* transaction was rolled back
C15_Witness ==
    /\ pc = "done"
    /\ input = ErrCallback
    /\ Len(CallsOn("Exec", TxHandle)) >= 1
    /\ Len(CallsOn("Rollback", TxHandle)) = 1

\* C16: the value Transaction returns tells the four outcomes apart: the
\* callback's error as it is when the rollback succeeded; an error carrying
\* the rollback failure and the callback's error when the rollback failed; a
\* commit-failure error when the commit failed; nil when it succeeded.
C16_TransactionOutcomes ==
    (pc = "done" /\ TxBegun) =>
        /\ (input # NoErr /\ firstErr = NoErr) => result.err = input
        /\ (input # NoErr /\ firstErr # NoErr) =>
              /\ result.err.format = "rollback failed: %v (original error: %w)"
              /\ result.err.arg = <<firstErr, input>>
        /\ (input = NoErr /\ firstErr # NoErr) =>
              /\ result.err.format = "failed to commit transaction: %w"
              /\ result.err.arg = <<firstErr>>
        /\ (input = NoErr /\ firstErr = NoErr) => result.err = NoErr

\* the callback failed and the rollback failed too
C16_Witness ==
    /\ pc = "done"
    /\ input = ErrCallback
    /\ firstErr = ErrRollback
    /\ result.err.arg = <<ErrRollback, ErrCallback>>

\* C17: when Transaction cannot start a transaction (no database connection,
\* or Begin fails) it returns an error without invoking the callback, without
\* handing a statement to the port and without calling Commit or Rollback.
C17_NoStartNoEffects ==
    /\ qb.rawDB = NilDB => (pc \in {"ready", "done"} /\ port = <<>>)
    /\ firstErr = ErrBegin => pc = "done"
    /\ (pc = "done" /\ (qb.rawDB = NilDB \/ firstErr = ErrBegin)) =>
          /\ result.err # NoErr
          /\ ~TxBegun
          /\ calls = 0
          /\ \A i \in 1..Len(port) : port[i].op = "Begin"

\* Begin failed on a builder that holds a table and conditions
C17_Witness ==
    /\ pc = "done"
    /\ qb.table = sUsers
    /\ qb.err = NoErr
    /\ firstErr = ErrBegin
    /\ result.err = Errorf("failed to begin transaction: %w", <<ErrBegin>>)
    /\ Len(port) = 1

\* C18: nested transactions are not supported: while the transaction is open,
\* Transaction called on the child builder issues no second Begin on the pool.
C18_NoNestedBegin ==
    pc \in {"callback", "rollback", "commit"} => Len(CallsOn("Begin", Pool)) <= 1

StatementOps == {"Query", "QueryRow", "Exec"}

\* C19: every statement issued inside the callback, through the child, the
\* builders HasMany and BelongsTo derive from it and its chunk pages, runs on
\* the transaction handle; the child starts with no table, condition, join,
\* ordering, limit, union or error whatever the parent holds; and Transaction
\* leaves the parent's fields as they were.
C19_ChildBoundToTransaction ==
    /\ [](/\ \A i \in 1..Len(port) : port[i].op \in StatementOps => port[i].db = TxHandle
          /\ (pc = "callback" /\ calls = 0) =>
                /\ other.db = TxHandle
                /\ other.table = <<>> /\ other.selectCols = <<>> /\ other.whereConds = <<>>
                /\ other.joins = <<>> /\ other.orderBy = <<>> /\ other.groupBy = <<>>
                /\ other.having = <<>> /\ other.limitCount = 0 /\ other.offsetCount = 0
                /\ other.unionQuery = <<>> /\ other.err = NoErr)
    /\ [][qb' = qb]_vars

\* inside the callback of a Transaction on a builder with conditions, a related
\* builder and the child itself have issued statements
C19_Witness ==
    /\ pc = "callback"
    /\ Len(qb.whereConds) = 1
    /\ qb.unionQuery # <<>>
    /\ other.table = sUsers
    /\ \E i \in 1..Len(port) :
          /\ port[i].op = "Query"
          /\ port[i].sql = <<"S","E","L","E","C","T"," ","*"," ","F","R","O","M"," ","p","o","s","t","s"," ","W","H","E","R","E"," ","i","d"," ","="," ","?">>
    /\ \E i \in 1..Len(port) : port[i].op = "Exec"


(***************************************************************************)
(* Chunk and ChunkByID, page by page (checked under SpecChunk).            *)
(***************************************************************************)
CeilDiv(a, b) == (a + b - 1) \div b

\* the callback invocations of the iteration under way, in order
ChunkCallbacks == SelectSeq(chunk.events, LAMBDA ev : ev.e = "callback")

\* every Get of the iteration so far succeeded and every callback returned true
ChunkUndisturbed == \A i \in 1..Len(chunk.events) : chunk.events[i].ok

\* the statement of the page at offset, as Get hands it to the port
PageStatement(offset) == Get(ChunkPage(qb, chunk.size, offset), TRUE).stmts[1]

\* C21: over a table of N matching rows that does not change, with a port
\* that never fails and a callback that always returns true, Chunk(n, fn)
\* with n > 0 terminates: fn is invoked exactly ceil(N/n) times, on the pages
\* at the offsets 0, n, 2n, ... in that order, each page probed and then
\* re-executed, then one empty page is probed and nil is returned.  With N = 0
\* fn is never invoked.
C21_ChunkVisitsEveryPageOnce ==
    (chunk.kind = "Chunk" /\ chunk.size > 0 /\ ChunkUndisturbed) =>
        LET cbs == ChunkCallbacks
            pages == CeilDiv(chunk.total, chunk.size) IN
        /\ Len(cbs) = chunk.callbacks
        /\ Len(cbs) <= pages
        /\ \A k \in 1..Len(cbs) :
              /\ cbs[k].offset = (k - 1) * chunk.size
              /\ cbs[k].rows = Min(chunk.size, chunk.total - (k - 1) * chunk.size)
        /\ \A i \in 1..Len(port) : port[i] = PageStatement(((i - 1) \div 2) * chunk.size)
        /\ pc = "returned" =>
              /\ result.err = NoErr
              /\ Len(cbs) = pages
              /\ Len(port) = 2 * pages + 1
              /\ chunk.events[Len(chunk.events)] =
                    [e |-> "probe", offset |-> pages * chunk.size, rows |-> 0, ok |-> TRUE]

C21_Witness ==
    /\ chunk.kind = "Chunk"
    /\ chunk.size = 1
    /\ chunk.total = 2
    /\ ChunkUndisturbed
    /\ pc = "returned"
    /\ chunk.callbacks = 2
    /\ Len(port) = 5


\* a step of the iteration at which Chunk stops: a Get that failed, a probe
\* that found no row, a callback that returned false
ChunkStops(ev) == ~ev.ok \/ (ev.e = "probe" /\ ev.rows = 0)

\* what Chunk returns when it stops at ev
ChunkStopError(ev) ==
    IF ev.e = "callback" \/ ev.ok THEN NoErr
    ELSE Get(ChunkPage(qb, chunk.size, ev.offset), FALSE).res.err

\* the step that follows the step ev, when Chunk does not stop at ev
ChunkFollows(ev, next) ==
    /\ ev.e = "probe" => next.e = "reexec" /\ next.offset = ev.offset
    /\ ev.e = "reexec" => next.e = "callback" /\ next.offset = ev.offset
    /\ ev.e = "callback" => next.e = "probe" /\ next.offset = ev.offset + chunk.size

\* C22: Chunk stops at the first of: a probe that yields no row (nil), a
\* callback that returns false (nil), an error of the probe or of the
\* re-execution (that error, no callback for that page).  Nothing follows the
\* stopping step: no statement, no callback.  Until then the pages are taken
\* strictly in sequence: probe, re-execution, callback on one offset, and the
\* offset grows by size only after the callback returned true.
C22_ChunkStopsAtFirstStop ==
    (chunk.kind = "Chunk" /\ chunk.size > 0) =>
        LET evs == chunk.events
            n == Len(evs) IN
        /\ \A i \in 1..(n - 1) : ~ChunkStops(evs[i]) /\ ChunkFollows(evs[i], evs[i + 1])
        /\ n > 0 => evs[1].e = "probe" /\ evs[1].offset = 0
        /\ (n > 0 /\ ChunkStops(evs[n])) =>
              pc = "returned" /\ result.err = ChunkStopError(evs[n])
        /\ pc = "returned" => n > 0 /\ ChunkStops(evs[n])
        /\ chunk.callbacks = Len(ChunkCallbacks)
        /\ Len(port) <= Len(SelectSeq(evs, LAMBDA ev : ev.e # "callback"))
        /\ chunk.offset = chunk.size * Len(SelectSeq(evs, LAMBDA ev : ev.e = "callback" /\ ev.ok))

\* the re-execution of the second page failed
C22_Witness ==
    /\ chunk.kind = "Chunk"
    /\ chunk.size = 1
    /\ chunk.total = 2
    /\ Len(chunk.events) = 5
    /\ chunk.events[5] = [e |-> "reexec", offset |-> 1, rows |-> 1, ok |-> FALSE]
    /\ chunk.callbacks = 1
    /\ pc = "returned"
    /\ result.err = ErrPort


\* the parent's statement with only the limit and the offset of a page
ParentPage(offset) == ToSQL([qb EXCEPT !.limitCount = chunk.size, !.offsetCount = offset])

\* C23: every statement Chunk hands to the port is the parent's statement
\* with nothing but the limit and the offset overridden: the parent's select
\* columns, joins, WHERE, GROUP BY, HAVING, ORDER BY and UNION clauses and
\* their parameters are those of the page, with LIMIT size and the OFFSET of
\* the page.
C23_ChunkPagesKeepParentClauses ==
    (chunk.kind = "Chunk" /\ chunk.size > 0 /\ qb.err = NoErr) =>
        \A i \in 1..Len(port) :
            LET parent == ParentPage(((i - 1) \div 2) * chunk.size) IN
            /\ port[i].sql = parent.sql
            /\ port[i].params = parent.params


\* s ends with sub
EndsWith(s, sub) == Len(sub) <= Len(s) /\ SubSeq(s, Len(s) - Len(sub) + 1, Len(s)) = sub

\* the end of every ChunkByID page: the condition on the cursor, the order
\* and the limit
CursorTail ==
    chunk.column \o <<" ",">"," ","?"," ","O","R","D","E","R"," ","B","Y"," ">>
        \o chunk.column \o <<" ","A","S","C"," ","L","I","M","I","T"," ">> \o Itoa(chunk.size)

MaxModelCalls == 2

sDeletedAt == <<"d","e","l","e","t","e","d","_","a","t">>

WithTrashed(b) == [b EXCEPT !.includeTrashed = TRUE]

OnlyTrashed(b) == WhereNotNull(b, sDeletedAt)

NewModel(table) == [table |-> table, primaryKey |-> sId, softDelete |-> FALSE, log |-> <<>>]

WithSoftDelete(m) == [m EXCEPT !.softDelete = TRUE]

ModelQueryPanics(m) == isValidIdentifierPanics(m.table)

\* Query as it would be if it did not exclude the soft-deleted rows
ModelQueryNotExcluding(m) ==
    IF ~isValidIdentifier(m.table)
    THEN [NewQueryBuilder("pool") EXCEPT !.err = Errorf("invalid table name: %q", m.table)]
    ELSE Table(NewQueryBuilder("pool"), m.table)

ModelQuery(m) ==
    IF ~isValidIdentifier(m.table)
    THEN [NewQueryBuilder("pool") EXCEPT !.err = Errorf("invalid table name: %q", m.table)]
    ELSE LET b == Table(NewQueryBuilder("pool"), m.table)
         IN IF m.softDelete THEN WhereNull(b, sDeletedAt) ELSE b

ModelTableInputs == {sUsers, sBadTable, <<Backtick>>}

InitModel ==
    /\ qb = NewQueryBuilder("pool")
    /\ other = NewQueryBuilder("pool")
    /\ result = NoResult
    /\ port = <<>>
    /\ calls = 0
    /\ pc = "model"
    /\ firstErr = NoErr
    /\ input \in {NewModel(t) : t \in ModelTableInputs}
    /\ chunk = NoChunk

MdWithSoftDelete ==
    /\ pc = "model"
    /\ ~input.softDelete
    /\ input' = WithSoftDelete(input)
    /\ UNCHANGED <<qb, other, result, port, calls, pc, firstErr, chunk>>

MdQuery ==
    /\ pc = "model"
    /\ IF ModelQueryPanics(input)
       THEN pc' = "panicked" /\ qb' = qb
       ELSE pc' = "ready" /\ qb' = ModelQuery(input)
    /\ UNCHANGED <<other, result, port, calls, firstErr, input, chunk>>

\* a mutator call on the Query builder: it panics, or it returns the builder nb
MdMutate(name, panics, nb) ==
    /\ pc = "ready"
    /\ calls < MaxModelCalls
    /\ calls' = calls + 1
    /\ input' = [input EXCEPT !.log = Append(@, name)]
    /\ IF panics THEN pc' = "panicked" /\ qb' = qb ELSE pc' = pc /\ qb' = nb
    /\ result' = NoResult
    /\ UNCHANGED <<other, port, firstErr, chunk>>

MdSelect == \E c \in ColumnInputs : MdMutate("Select", SelectPanics(<<c>>), Select(qb, <<c>>))

MdWhere ==
    \E c \in ColumnInputs \cup {<<Backtick>>} :
        MdMutate("Where", WherePanics(c), Where(qb, c, opEQ, IntV(1)))

MdOrWhere == \E c \in ColumnInputs : MdMutate("OrWhere", WherePanics(c), OrWhere(qb, c, opGT, IntV(2)))

MdWhereNotNull == \E c \in ColumnInputs : MdMutate("WhereNotNull", WherePanics(c), WhereNotNull(qb, c))

MdOrderBy == \E d \in DirectionInputs : MdMutate("OrderBy", OrderByPanics(sName), OrderBy(qb, sName, d))

MdLimit == MdMutate("Limit", FALSE, Limit(qb, 10))

MdWithTrashed == MdMutate("WithTrashed", FALSE, WithTrashed(qb))

MdOnlyTrashed == MdMutate("OnlyTrashed", FALSE, OnlyTrashed(qb))

MdToSQL ==
    LET o == CallToSQL(qb) IN
    /\ pc = "ready"
    /\ qb' = o.b
    /\ result' = o.res
    /\ UNCHANGED <<other, port, calls, pc, firstErr, input, chunk>>

NextModel ==
    \/ MdWithSoftDelete \/ MdQuery
    \/ MdSelect \/ MdWhere \/ MdOrWhere \/ MdWhereNotNull \/ MdOrderBy \/ MdLimit
    \/ MdWithTrashed \/ MdOnlyTrashed
    \/ MdToSQL

SpecModel == InitModel /\ [][NextModel]_vars

\* the text of the WHERE clause of an assembled statement: from " WHERE " to
\* the next clause
WhereOf(sql) ==
    LET w == IndexOf(sql, <<" ","W","H","E","R","E"," ">>)
        rest == IF w = 0 THEN <<>> ELSE SubSeq(sql, w + 7, Len(sql))
        ends == {IndexOf(rest, k) : k \in {<<" ","G","R","O","U","P"," ","B","Y"," ">>, <<" ","O","R","D","E","R"," ","B","Y"," ">>, <<" ","L","I","M","I","T"," ">>, <<" ","O","F","F","S","E","T"," ">>, <<" ","U","N","I","O","N">>}} \ {0}
    IN IF ends = {} THEN rest
       ELSE SubSeq(rest, 1, (CHOOSE e \in ends : \A f \in ends : e <= f) - 1)

sIsNull == <<"d","e","l","e","t","e","d","_","a","t"," ","I","S"," ","N","U","L","L">>
sIsNotNull == <<"d","e","l","e","t","e","d","_","a","t"," ","I","S"," ","N","O","T"," ","N","U","L","L">>

Assembled == pc = "ready" /\ result.op = "ToSQL" /\ result.err = NoErr

TrashedCalls == {"WithTrashed", "OnlyTrashed"}

LogHas(names) == \E i \in 1..Len(input.log) : input.log[i] \in names

\* C25: the statement assembled from the Query builder of a Model with soft
\* delete carries the condition deleted_at IS NULL as the first condition of
\* its WHERE clause, whatever mutators other than WithTrashed and OnlyTrashed
\* have succeeded on it; the statement of a Model without soft delete does not
\* mention deleted_at unless the caller added such a condition.
C25_QueryExcludesSoftDeleted ==
    (Assembled /\ ~LogHas(TrashedCalls)) =>
        IF input.softDelete
        THEN StartsAt(WhereOf(result.sql), 1, sIsNull)
        ELSE IndexOf(result.sql, sDeletedAt) = 0

C25_Witness ==
    /\ Assembled
    /\ input.softDelete
    /\ input.log = <<"OrWhere", "OrderBy">>
    /\ Len(qb.whereConds) = 2
    /\ qb.orderBy # <<>>


\* C26: on the Query builder of a Model with soft delete, WithTrashed gives a
\* statement without the condition deleted_at IS NULL, and OnlyTrashed gives a
\* statement whose only condition on deleted_at is deleted_at IS NOT NULL.
C26_TrashedScopesLiftExclusion ==
    (Assembled /\ input.softDelete) =>
        /\ input.log = <<"WithTrashed">> => IndexOf(result.sql, sIsNull) = 0
        /\ input.log = <<"OnlyTrashed">> =>
              /\ IndexOf(result.sql, sIsNotNull) # 0
              /\ IndexOf(result.sql, sIsNull) = 0


\* C27: Count and Exists put the select columns of the builder back before
\* they return, whether the statement was executed, the port failed or the
\* assembly failed (sticky error, no table): after the call the builder selects
\* what the caller had requested and not COUNT(*).  (No call of Spec requests
\* COUNT(*) as a column.)
C27_CountRestoresSelect ==
    result.op \in {"Count", "Exists"} => qb.selectCols # <<countExpr>>


(***************************************************************************)
(* Insert, Update and Delete.  SpecWrite builds a builder with Table and   *)
(* conditions and calls Insert, Update or Delete on it.  The data is a map, *)
(* here a set of entries; Go iterates a map in an order of its own, so the *)
(* call draws one of the orders of the entries.  input holds the data of   *)
(* the last call.                                                          *)
(***************************************************************************)
MaxWriteCalls == 3

Entry(col, val) == [col |-> col, val |-> val]

\* the data maps SpecWrite hands to Insert and Update
WriteDataInputs ==
    { {Entry(sName, StrV(<<"a">>)), Entry(sId, IntV(7))},
      {Entry(sName, IntV(8)), Entry(sBadColumn, IntV(9))},
      {Entry(sId, IntV(7)), Entry(<<Backtick>>, IntV(9))} }

\* the orders in which the entries of a map can be iterated
Orders(data) ==
    { s \in [1..Cardinality(data) -> data] : \A i, j \in 1..Cardinality(data) : s[i] = s[j] => i = j }

WrMutate(nb) ==
    /\ pc = "ready"
    /\ calls < MaxWriteCalls
    /\ calls' = calls + 1
    /\ qb' = nb
    /\ result' = NoResult
    /\ port' = <<>>
    /\ input' = <<>>
    /\ UNCHANGED <<other, pc, firstErr, chunk>>

WrTable == \E t \in TableInputs : WrMutate(Table(qb, t))

WrWhere == \E c \in ColumnInputs, v \in {IntV(1), IntV(2)} : WrMutate(Where(qb, c, opEQ, v))

WrOrWhere == WrMutate(OrWhere(qb, sName, opGT, IntV(3)))

WrWhereIn == WrMutate(WhereIn(qb, sId, <<IntV(4), IntV(5)>>))

WrWhereNull == WrMutate(WhereNull(qb, sName))

\* a call of Insert, Update or Delete: it panics, or it returns the outcome o
WrTerminal(data, panics, o) ==
    /\ pc = "ready"
    /\ input' = [op |-> o.res.op, data |-> data]
    /\ IF panics
       THEN pc' = "panicked" /\ result' = NoResult /\ port' = <<>> /\ qb' = qb
       ELSE pc' = pc /\ result' = o.res /\ port' = o.stmts /\ qb' = o.b
    /\ UNCHANGED <<other, calls, firstErr, chunk>>

WrInsert ==
    \E data \in WriteDataInputs, ok \in BOOLEAN : \E entries \in Orders(data) :
        WrTerminal(data, DataPanics(qb, entries), Insert(qb, entries, ok))

WrUpdate ==
    \E data \in WriteDataInputs, ok \in BOOLEAN : \E entries \in Orders(data) :
        WrTerminal(data, DataPanics(qb, entries), Update(qb, entries, ok))

WrDelete == \E ok \in BOOLEAN : WrTerminal({}, FALSE, Delete(qb, ok))

NextWrite ==
    \/ WrTable \/ WrWhere \/ WrOrWhere \/ WrWhereIn \/ WrWhereNull
    \/ WrInsert \/ WrUpdate \/ WrDelete

SpecWrite == Init /\ [][NextWrite]_vars

RECURSIVE Split(_, _)
\* strings.Split
Split(s, sep) ==
    IF IndexOf(s, sep) = 0 THEN <<s>>
    ELSE <<SubSeq(s, 1, IndexOf(s, sep) - 1)>>
         \o Split(SubSeq(s, IndexOf(s, sep) + Len(sep), Len(s)), sep)

\* the text of s after the first a and before the next b (to the end when
\* there is no b)
Between(s, a, b) ==
    LET rest == SubSeq(s, IndexOf(s, a) + Len(a), Len(s))
    IN IF IndexOf(rest, b) = 0 THEN rest ELSE SubSeq(rest, 1, IndexOf(rest, b) - 1)

\* the columns an INSERT or UPDATE statement names, in order
StatementColumns(op, sql) ==
    IF op = "Insert" THEN Split(Between(sql, <<"(">>, <<")">>), <<","," ">>)
    ELSE LET sets == Split(Between(sql, <<" ","S","E","T"," ">>, <<" ","W","H","E","R","E"," ">>), <<","," ">>)
         IN [k \in 1..Len(sets) |-> SubSeq(sets[k], 1, Len(sets[k]) - 4)]

\* the text of a statement from its WHERE clause on
FromWhere(sql) ==
    IF IndexOf(sql, <<" ","W","H","E","R","E"," ">>) = 0 THEN <<>> ELSE SubSeq(sql, IndexOf(sql, <<" ","W","H","E","R","E"," ">>), Len(sql))

ValidKeys(data) ==
    \A e \in data : ~isValidIdentifierPanics(e.col) /\ isValidIdentifier(e.col)

\* Insert, Update or Delete has been called on a builder that has a table and
\* no sticky error
WriteCalled ==
    /\ input # <<>>
    /\ qb.err = NoErr
    /\ qb.table # <<>>

\* C28: Insert and Update bind the k-th value to the k-th column named in the
\* statement, whatever the iteration order of the data map; Update binds the
\* SET values before the WHERE parameters; Update and Delete render the WHERE
\* conditions of the builder with the text and the parameters ToSQL gives
\* them; and with a data key that is not a valid identifier Insert and Update
\* return an "invalid column name" error and hand no statement to the port.
C28_WritesBindColumnsToValues ==
    WriteCalled =>
        /\ (input.op \in {"Insert", "Update"} /\ ValidKeys(input.data)) =>
              LET cols == StatementColumns(input.op, port[1].sql)
                  n == Cardinality(input.data) IN
              /\ Len(port) = 1
              /\ Len(cols) = n
              /\ Len(port[1].params) >= n
              /\ \A k \in 1..n : Entry(cols[k], port[1].params[k]) \in input.data
              /\ input.op = "Insert" => Len(port[1].params) = n
        /\ (input.op \in {"Update", "Delete"} /\ ValidKeys(input.data)) =>
              LET n == Cardinality(input.data)
                  sel == ToSQL(qb) IN
              /\ Len(port) = 1
              /\ FromWhere(port[1].sql) = FromWhere(sel.sql)
              /\ SubSeq(port[1].params, n + 1, Len(port[1].params)) = sel.params
        /\ ~ValidKeys(input.data) =>
              /\ pc = "ready"
              /\ port = <<>>
              /\ result.err.format \in {"invalid column name in Insert: %q", "invalid column name in Update: %q"}


(***************************************************************************)
(* Scopes.  SpecScope builds a builder with mutators, applies a list of    *)
(* the predefined scopes to it with one Scope call and assembles it.       *)
(* other holds the builder as it was before the Scope call, input the list *)
(* of scopes.                                                              *)
(***************************************************************************)
MaxScopeCalls == 2
MaxScopes == 2

BoolV(v) == [kind |-> "bool", n |-> IF v THEN 1 ELSE 0, s |-> <<>>]

sActive == <<"a","c","t","i","v","e">>
sPublished == <<"p","u","b","l","i","s","h","e","d">>
sPublishedAt == <<"p","u","b","l","i","s","h","e","d","_","a","t">>
sCreatedAt == <<"c","r","e","a","t","e","d","_","a","t">>
sASC == <<"A","S","C">>

Active(b) == Where(b, sActive, opEQ, BoolV(TRUE))

Recent(b) == OrderBy(b, sCreatedAt, sDESC)

Oldest(b) == OrderBy(b, sCreatedAt, sASC)

Published(b) == WhereNotNull(Where(b, sPublished, opEQ, BoolV(TRUE)), sPublishedAt)

Draft(b) == Where(b, sPublished, opEQ, BoolV(FALSE))

ScopeNames == {"Active", "Recent", "Oldest", "Published", "Draft"}

\* scope(qb), for the scope of that name
ApplyScope(name, b) ==
    CASE name = "Active" -> Active(b)
      [] name = "Recent" -> Recent(b)
      [] name = "Oldest" -> Oldest(b)
      [] name = "Published" -> Published(b)
      [] name = "Draft" -> Draft(b)

RECURSIVE ScopeLastFirst(_, _)
\* Scope as it would be if it applied the last scope first
ScopeLastFirst(b, scopes) ==
    IF scopes = <<>> THEN b
    ELSE ScopeLastFirst(ApplyScope(scopes[Len(scopes)], b), SubSeq(scopes, 1, Len(scopes) - 1))

RECURSIVE Scope(_, _)
Scope(b, scopes) ==
    IF scopes = <<>> THEN b
    ELSE Scope(ApplyScope(scopes[1], b), Tail(scopes))

ScopeLists == UNION {[1..n -> ScopeNames] : n \in 0..MaxScopes}

ScMutate(nb) ==
    /\ pc = "ready"
    /\ input = <<>>
    /\ calls < MaxScopeCalls
    /\ calls' = calls + 1
    /\ qb' = nb
    /\ other' = nb
    /\ input' = <<>>
    /\ result' = NoResult
    /\ UNCHANGED <<port, pc, firstErr, chunk>>

ScTable == \E t \in TableInputs : ScMutate(Table(qb, t))

ScWhere == \E c \in ColumnInputs : ScMutate(Where(qb, c, opEQ, IntV(1)))

ScOrderBy == ScMutate(OrderBy(qb, sName, <<>>))

ScScope ==
    \E scopes \in ScopeLists :
        /\ pc = "ready"
        /\ input = <<>>
        /\ calls' = calls
        /\ other' = qb
        /\ qb' = Scope(qb, scopes)
        /\ input' = [scopes |-> scopes]
        /\ result' = NoResult
        /\ UNCHANGED <<port, pc, firstErr, chunk>>

ScToSQL ==
    LET o == CallToSQL(qb) IN
    /\ pc = "ready"
    /\ qb' = o.b
    /\ result' = o.res
    /\ UNCHANGED <<other, port, calls, pc, firstErr, input, chunk>>

NextScope == ScTable \/ ScWhere \/ ScOrderBy \/ ScScope \/ ScToSQL

SpecScope == Init /\ [][NextScope]_vars

\* the mutator calls in the body of the scope of that name, made directly
ScopeBody(name, b) ==
    IF name = "Active" THEN Where(b, sActive, opEQ, BoolV(TRUE))
    ELSE IF name = "Published"
    THEN WhereNotNull(Where(b, sPublished, opEQ, BoolV(TRUE)), sPublishedAt)
    ELSE IF name = "Draft" THEN Where(b, sPublished, opEQ, BoolV(FALSE))
    ELSE IF name = "Recent" THEN OrderBy(b, sCreatedAt, sDESC)
    ELSE OrderBy(b, sCreatedAt, sASC)

RECURSIVE BodiesInOrder(_, _)
BodiesInOrder(b, names) ==
    IF names = <<>> THEN b ELSE BodiesInOrder(ScopeBody(names[1], b), Tail(names))

\* what a scope adds to the statement of a builder that has only a table
ScopeAdds(name) ==
    CASE name = "Active" -> [sql |-> <<" ","W","H","E","R","E"," ","a","c","t","i","v","e"," ","="," ","?">>, params |-> <<BoolV(TRUE)>>]
      [] name = "Published" ->
            [sql |-> <<" ","W","H","E","R","E"," ","p","u","b","l","i","s","h","e","d"," ","="," ","?"," ","A","N","D"," ","p","u","b","l","i","s","h","e","d","_","a","t"," ","I","S"," ","N","O","T"," ","N","U","L","L">>, params |-> <<BoolV(TRUE)>>]
      [] name = "Draft" -> [sql |-> <<" ","W","H","E","R","E"," ","p","u","b","l","i","s","h","e","d"," ","="," ","?">>, params |-> <<BoolV(FALSE)>>]
      [] name = "Recent" -> [sql |-> <<" ","O","R","D","E","R"," ","B","Y"," ","c","r","e","a","t","e","d","_","a","t"," ","D","E","S","C">>, params |-> <<>>]
      [] name = "Oldest" -> [sql |-> <<" ","O","R","D","E","R"," ","B","Y"," ","c","r","e","a","t","e","d","_","a","t"," ","A","S","C">>, params |-> <<>>]

\* C29: Scope is a left fold.  Scope() returns the builder unchanged;
\* Scope(s1, s2) assembles to the SQL and parameters of Scope(s1).Scope(s2);
\* Scope(s1, ..., sn) assembles to the SQL and parameters of the mutator calls
\* in the bodies of s1, ..., sn made directly in that order; and on a builder
\* with only a table Active adds active = ? with true, Published adds
\* published = ? with true and published_at IS NOT NULL, Draft adds
\* published = ? with false, Recent and Oldest add ORDER BY created_at DESC
\* and ASC.
C29_ScopeIsLeftFold ==
    input # <<>> =>
        LET ss == input.scopes IN
        /\ ss = <<>> => qb = other
        /\ Len(ss) = 2 => ToSQL(qb) = ToSQL(Scope(Scope(other, <<ss[1]>>), <<ss[2]>>))
        /\ ToSQL(qb) = ToSQL(BodiesInOrder(other, ss))
        /\ (Len(ss) = 1 /\ other = Table(NewQueryBuilder("pool"), sUsers)) =>
              /\ ToSQL(qb).err = NoErr
              /\ ToSQL(qb).sql = <<"S","E","L","E","C","T"," ","*"," ","F","R","O","M"," ","u","s","e","r","s">> \o ScopeAdds(ss[1]).sql
              /\ ToSQL(qb).params = ScopeAdds(ss[1]).params
        /\ result.op = "ToSQL" =>
              /\ result.sql = ToSQL(BodiesInOrder(other, ss)).sql
              /\ result.params = ToSQL(BodiesInOrder(other, ss)).params

C29_Witness ==
    /\ input # <<>>
    /\ input.scopes = <<"Published", "Active">>
    /\ other = Table(NewQueryBuilder("pool"), sUsers)
    /\ result.op = "ToSQL"
    /\ result.err = NoErr
    /\ result.params = <<BoolV(TRUE), BoolV(TRUE)>>


(***************************************************************************)
(* Related builders.  SpecRel builds a parent builder in qb, derives a     *)
(* related builder from it with HasMany or BelongsTo into other, and then  *)
(* calls mutators on either.  input holds the arguments of the relation    *)
(* call and the number of mutator calls on the related builder since.      *)
(***************************************************************************)
MaxRelCalls == 4

sUserId == <<"u","s","e","r","_","i","d">>

RelTableInputs == {sPosts, sBadTable}
RelKeyInputs == {sUserId, sBadColumn}

RlStep(parent, child, rel) ==
    /\ pc = "ready"
    /\ calls < MaxRelCalls
    /\ calls' = calls + 1
    /\ qb' = parent
    /\ other' = child
    /\ input' = rel
    /\ result' = NoResult
    /\ UNCHANGED <<port, pc, firstErr, chunk>>

\* mutators on the parent
RlParentTable == \E t \in TableInputs : RlStep(Table(qb, t), other, input)

RlParentWhere == \E c \in ColumnInputs : RlStep(Where(qb, c, opEQ, IntV(1)), other, input)

RlParentJoin == RlStep(InnerJoin(qb, sPosts, sOnUsersPosts), other, input)

RlParentOrderBy == RlStep(OrderBy(qb, sName, sDESC), other, input)

RlParentLimit == RlStep(Offset(Limit(qb, 5), 10), other, input)

Relation(kind, relatedTable, foreignKey, id) ==
    [kind |-> kind, relatedTable |-> relatedTable, foreignKey |-> foreignKey, id |-> id,
     childCalls |-> 0]

RlHasMany ==
    \E t \in RelTableInputs, k \in RelKeyInputs :
        RlStep(qb, HasMany(qb, t, k, IntV(7)), Relation("HasMany", t, k, IntV(7)))

RlBelongsTo ==
    \E t \in RelTableInputs, k \in RelKeyInputs :
        RlStep(qb, BelongsTo(qb, t, k, IntV(7)), Relation("BelongsTo", t, k, IntV(7)))

\* mutators on the related builder
RlChildMutate(nb) ==
    /\ input # <<>>
    /\ RlStep(qb, nb, [input EXCEPT !.childCalls = @ + 1])

RlChildWhere == \E c \in ColumnInputs : RlChildMutate(Where(other, c, opGT, IntV(2)))

RlChildOrderBy == RlChildMutate(OrderBy(other, sId, <<>>))

RlChildLimit == RlChildMutate(Limit(other, 3))

NextRel ==
    \/ RlParentTable \/ RlParentWhere \/ RlParentJoin \/ RlParentOrderBy \/ RlParentLimit
    \/ RlHasMany \/ RlBelongsTo
    \/ RlChildWhere \/ RlChildOrderBy \/ RlChildLimit

SpecRel == Init /\ [][NextRel]_vars

\* the statement of a related builder fresh from HasMany or BelongsTo
RelatedSQL(rel) ==
    SQLResult(<<"S","E","L","E","C","T"," ","*"," ","F","R","O","M"," ">> \o rel.relatedTable \o <<" ","W","H","E","R","E"," ">>
                  \o (IF rel.kind = "HasMany" THEN rel.foreignKey ELSE sId) \o <<" ","="," ","?">>,
              <<rel.id>>, NoErr)

\* C30: HasMany and BelongsTo return a new builder that shares only the
\* execution handle with the parent.  With a valid related table (and, for
\* HasMany, a valid foreign key) it assembles to SELECT * FROM related WHERE
\* fk = ? (HasMany) or SELECT * FROM related WHERE id = ? (BelongsTo, whatever
\* the foreign key argument) with the id as only parameter: nothing of the
\* parent's table, conditions, joins, ordering, limits or sticky error.  A
\* mutator called later on the related builder leaves what the parent
\* assembles to unchanged, and a mutator called later on the parent leaves
\* what the related builder assembles to unchanged.
C30_RelatedBuilderIsIndependent ==
    /\ [](input # <<>> =>
            /\ other.db = qb.db /\ other.rawDB = qb.rawDB
            /\ (/\ input.childCalls = 0
                /\ isValidIdentifier(input.relatedTable)
                /\ (input.kind = "HasMany" => isValidIdentifier(input.foreignKey))) =>
                  ToSQL(other) = RelatedSQL(input))
    /\ [][(input # <<>> /\ input' # <<>>) =>
             /\ other' # other => ToSQL(qb') = ToSQL(qb)
             /\ qb' # qb => ToSQL(other') = ToSQL(other)]_vars

\* a related builder fresh from BelongsTo on a parent with a sticky error, a
\* condition and an order
C30_Witness ==
    /\ input # <<>>
    /\ input.kind = "BelongsTo"
    /\ input.foreignKey = sBadColumn
    /\ input.relatedTable = sPosts
    /\ input.childCalls = 0
    /\ qb.err # NoErr
    /\ Len(qb.whereConds) = 1
    /\ qb.orderBy # <<>>
    /\ ToSQL(other).err = NoErr


(***************************************************************************)
(* The operations of a Model.  SpecModelOps makes a Model (NewModel,       *)
(* possibly WithPrimaryKey and WithSoftDelete) and calls one operation on  *)
(* it: Find, All (which is Query followed by Get), Create, Update, Delete, *)
(* or Query followed by Count.  port holds the statements the operation    *)
(* hands to the database.                                                  *)
(***************************************************************************)
WithPrimaryKey(m, pk) == [m EXCEPT !.primaryKey = pk]

\* Find(db, id): whether it panics, and its outcome
ModelFindPanics(m, id) ==
    ModelQueryPanics(m) \/ WherePanics(m.primaryKey)

ModelFind(m, id) == First(Where(ModelQuery(m), m.primaryKey, opEQ, id))

\* All(db)
ModelAll(m, ok) == Get(ModelQuery(m), ok)

\* Create(db, data)
ModelCreate(m, entries, ok) == Insert(Table(NewQueryBuilder("pool"), m.table), entries, ok)

ModelWritePanics(m) == TablePanics(m.table) \/ WherePanics(m.primaryKey)

\* Update(db, id, data)
ModelUpdate(m, id, entries, ok) ==
    Update(Where(Table(NewQueryBuilder("pool"), m.table), m.primaryKey, opEQ, id), entries, ok)

\* Delete(db, id)
ModelDelete(m, id, ok) ==
    Delete(Where(Table(NewQueryBuilder("pool"), m.table), m.primaryKey, opEQ, id), ok)

PrimaryKeyInputs == {sName, sBadColumn, <<Backtick>>}

MoWithPrimaryKey ==
    \E pk \in PrimaryKeyInputs :
        /\ pc = "model"
        /\ input.primaryKey = sId
        /\ input' = WithPrimaryKey(input, pk)
        /\ UNCHANGED <<qb, other, result, port, calls, pc, firstErr, chunk>>

\* an operation of the Model: it panics, or it returns the outcome o
MoCall(panics, o) ==
    /\ pc = "model"
    /\ IF panics
       THEN pc' = "panicked" /\ UNCHANGED <<qb, result, port>>
       ELSE pc' = "done" /\ qb' = o.b /\ result' = o.res /\ port' = o.stmts
    /\ UNCHANGED <<other, calls, firstErr, input, chunk>>

MoFind == MoCall(ModelFindPanics(input, IntV(1)), ModelFind(input, IntV(1)))

MoAll == \E ok \in BOOLEAN : MoCall(ModelQueryPanics(input), ModelAll(input, ok))

MoCreate ==
    \E d \in DataInputs, ok \in BOOLEAN : MoCall(TablePanics(input.table), ModelCreate(input, d, ok))

MoUpdate ==
    \E d \in DataInputs, ok \in BOOLEAN :
        MoCall(ModelWritePanics(input), ModelUpdate(input, IntV(1), d, ok))

MoDelete == \E ok \in BOOLEAN : MoCall(ModelWritePanics(input), ModelDelete(input, IntV(1), ok))

MoQueryCount == \E ok \in BOOLEAN : MoCall(ModelQueryPanics(input), Count(ModelQuery(input), ok))

NextModelOps ==
    \/ MdWithSoftDelete \/ MoWithPrimaryKey
    \/ MoFind \/ MoAll \/ MoCreate \/ MoUpdate \/ MoDelete \/ MoQueryCount

SpecModelOps == InitModel /\ [][NextModelOps]_vars

\* the Model has a name that is not a valid identifier
InvalidModel ==
    \/ isValidIdentifierPanics(input.table) \/ ~isValidIdentifier(input.table)
    \/ isValidIdentifierPanics(input.primaryKey) \/ ~isValidIdentifier(input.primaryKey)

\* C31: for a Model whose table name or primary key is not a valid
\* identifier, no operation of the Model (Query followed by Get or Count,
\* Find, All, Create, Update, Delete) hands a statement to the database: each
\* fails with a validation error first.
C31_InvalidModelIssuesNothing ==
    (InvalidModel /\ pc = "done") =>
        /\ port = <<>>
        /\ result.err # NoErr


(***************************************************************************)
(* ModuleRegistry.  SpecRegistry registers modules and runs InitializeAll  *)
(* and ShutdownAll; every operation holds the registry's lock, so it is    *)
(* one step.  input holds the registry, port the Initialize and Shutdown   *)
(* calls of the last InitializeAll or ShutdownAll in order, qb the modules *)
(* whose call fails in it, other the names registered with success, in     *)
(* order, and calls the number of operations made.                         *)
(***************************************************************************)
MaxModules == 3
MaxRegistryCalls == 4

ModuleNames == 1..MaxModules

NewModuleRegistry == [modules |-> {}, order |-> <<>>]

\* Register(m), with name = m.Name(): the registry after it and the error
Register(r, name) ==
    IF name \in r.modules
    THEN [r |-> r, err |-> Errorf("module %q already registered", name)]
    ELSE [r |-> [modules |-> r.modules \cup {name}, order |-> Append(r.order, name)],
          err |-> NoErr]

Names(r) == r.order

ModuleCount(r) == Cardinality(r.modules)

ModuleCall(method, name) == [method |-> method, name |-> name]

RECURSIVE InitializeFrom(_, _, _)
\* the loop of InitializeAll from position i; failing holds the modules whose
\* Initialize returns an error
InitializeFrom(r, failing, i) ==
    IF i > Len(r.order) THEN [log |-> <<>>, err |-> NoErr]
    ELSE IF r.order[i] \in failing
    THEN [log |-> <<ModuleCall("Initialize", r.order[i])>>,
          err |-> Errorf("module %q initialization failed: %w", r.order[i])]
    ELSE LET rest == InitializeFrom(r, failing, i + 1)
         IN [log |-> <<ModuleCall("Initialize", r.order[i])>> \o rest.log, err |-> rest.err]

\* InitializeAll as it would be if it went on after a failure
InitializeAllContinuing(r, failing) ==
    [log |-> [i \in 1..Len(r.order) |-> ModuleCall("Initialize", r.order[i])],
     err |-> IF \E i \in 1..Len(r.order) : r.order[i] \in failing
             THEN Errorf("module %q initialization failed: %w",
                         r.order[CHOOSE i \in 1..Len(r.order) : r.order[i] \in failing])
             ELSE NoErr]

InitializeAll(r, failing) == InitializeFrom(r, failing, 1)

\* ShutdownAll; failing holds the modules whose Shutdown returns an error
ShutdownAll(r, failing) ==
    LET n == Len(r.order)
        log == [i \in 1..n |-> ModuleCall("Shutdown", r.order[n + 1 - i])]
        errs == SelectSeq([i \in 1..n |-> r.order[n + 1 - i]], LAMBDA name : name \in failing)
    IN [log |-> log,
        err |-> IF Len(errs) = 0 THEN NoErr
                ELSE IF Len(errs) = 1 THEN Errorf("module %q shutdown failed: %w", errs[1])
                ELSE Errorf("multiple shutdown errors:", errs)]

InitRegistry ==
    /\ input = NewModuleRegistry
    /\ other = <<>>
    /\ qb = {}
    /\ result = [NoResult EXCEPT !.op = "NewModuleRegistry"]
    /\ port = <<>>
    /\ calls = 0
    /\ pc = "ready"
    /\ firstErr = NoErr
    /\ chunk = NoChunk

RgRegister ==
    \E name \in ModuleNames :
        LET o == Register(input, name) IN
        /\ calls < MaxRegistryCalls
        /\ calls' = calls + 1
        /\ input' = o.r
        /\ other' = IF o.err = NoErr THEN Append(other, name) ELSE other
        /\ result' = [NoResult EXCEPT !.op = "Register", !.err = o.err]
        /\ qb' = {}
        /\ port' = <<>>
        /\ UNCHANGED <<pc, firstErr, chunk>>

RgLifecycle(op, failing, o) ==
    /\ calls < MaxRegistryCalls
    /\ calls' = calls + 1
    /\ port' = o.log
    /\ qb' = failing
    /\ result' = [NoResult EXCEPT !.op = op, !.err = o.err]
    /\ UNCHANGED <<other, input, pc, firstErr, chunk>>

RgInitializeAll ==
    \E failing \in SUBSET ModuleNames :
        RgLifecycle("InitializeAll", failing, InitializeAll(input, failing))

RgShutdownAll ==
    \E failing \in SUBSET ModuleNames :
        RgLifecycle("ShutdownAll", failing, ShutdownAll(input, failing))

NextRegistry == RgRegister \/ RgInitializeAll \/ RgShutdownAll

SpecRegistry == InitRegistry /\ [][NextRegistry]_vars

\* the position of name in the registration order
RegisteredAt(name) == CHOOSE i \in 1..Len(other) : other[i] = name

\* the modules of the last InitializeAll or ShutdownAll whose call failed
FailedCalls == {i \in 1..Len(port) : port[i].name \in qb}

\* C32: Register rejects a module whose name is already registered and
\* leaves the registry unchanged: the names stay unique, Count is the number
\* of successful registrations and Names lists them in registration order.
\* InitializeAll calls Initialize in registration order and stops at the
\* first failure, so no module registered after the failing one is
\* initialized.  ShutdownAll calls Shutdown on every registered module in
\* reverse registration order, goes on after a failure, and returns an error
\* exactly when at least one Shutdown failed.
C32_RegistryLifecycleOrder ==
    /\ [](/\ Names(input) = other
          /\ ModuleCount(input) = Len(other)
          /\ \A i, j \in 1..Len(other) : other[i] = other[j] => i = j
          /\ result.op = "InitializeAll" =>
                /\ \A i \in 1..Len(port) : port[i] = ModuleCall("Initialize", other[i])
                /\ \A i \in FailedCalls : i = Len(port)
                /\ Len(port) < Len(other) => FailedCalls # {}
                /\ result.err # NoErr <=> FailedCalls # {}
          /\ result.op = "ShutdownAll" =>
                /\ Len(port) = Len(other)
                /\ \A i \in 1..Len(port) :
                      port[i] = ModuleCall("Shutdown", other[Len(other) + 1 - i])
                /\ result.err # NoErr <=> FailedCalls # {})
    /\ [][(result'.op = "Register" /\ calls' # calls /\ result'.err # NoErr) =>
             /\ input' = input
             /\ \E name \in input.modules :
                   result'.err = Errorf("module %q already registered", name)]_vars

\* InitializeAll stopped at the second of three registered modules
C32_Witness ==
    /\ Len(other) = 3
    /\ calls = 4
    /\ result.op = "InitializeAll"
    /\ Len(port) = 2
    /\ result.err # NoErr


\* C33: a condition added with Where or OrWhere whose operator is IS NULL or
\* IS NOT NULL in any letter case isValidOperator accepts (is null, Is Null)
\* is rendered as the column and the operator with no placeholder, and adds
\* no parameter (checked under SpecOperators).
C33_NullOperatorsInAnyCase ==
    (/\ pc = "done"
     /\ result.op \in {"Where", "OrWhere"}
     /\ isValidOperator(input)
     /\ ToUpper(input) \in {opISNULL, opISNOTNULL}) =>
        /\ result.err = NoErr
        /\ result.sql = <<"S","E","L","E","C","T"," ","*"," ","F","R","O","M"," ","u","s","e","r","s"," ","W","H","E","R","E"," ","i","d"," ">> \o input
        /\ result.params = <<>>


\* the number of the LIMIT clause of a statement is 1
LimitIsOne(sql) ==
    LET i == IndexOf(sql, <<" ","L","I","M","I","T"," ">>)
        rest == SubSeq(sql, i + 7, Len(sql))
    IN /\ i # 0
       /\ StartsAt(rest, 1, <<"1">>)
       /\ Len(rest) = 1 \/ rest[2] = " "

\* C34: First sets the limit of the builder itself to 1 and then calls the
\* single-row query of the port exactly once, in every case.  The limit is
\* still 1 after First has returned: a ToSQL on the builder then has LIMIT 1
\* whatever limit was set before.  When the assembly fails (sticky error, no
\* table) the error is dropped and the single-row query is issued all the
\* same, with an empty statement text and no parameters (checked under Spec).
C34_FirstForcesLimitAndQueries ==
    result.op = "First" =>
        /\ qb.limitCount = 1
        /\ result.err = NoErr
        /\ Len(port) = 1
        /\ port[1].op = "QueryRow"
        /\ port[1].db = qb.db
        /\ IF qb.err # NoErr \/ qb.table = <<>>
           THEN port[1].sql = <<>> /\ port[1].params = <<>> /\ ToSQL(qb).err # NoErr
           ELSE /\ ToSQL(qb).err = NoErr
                /\ port[1].sql = ToSQL(qb).sql
                /\ port[1].params = ToSQL(qb).params
                /\ LimitIsOne(ToSQL(qb).sql)

\* First after two mutator calls on a builder with a sticky error
C34_Witness ==
    /\ result.op = "First"
    /\ qb.err # NoErr
    /\ calls = 2
    /\ qb.limitCount = 1
    /\ port # <<>>
    /\ port[1].sql = <<>>


(***************************************************************************)
(* Rejected calls.  SpecFrame builds a builder with calls that pass        *)
(* validation and calls that do not.  other holds the builder as it was    *)
(* before the last call, input the call and whether its arguments are      *)
(* among those validation must reject.                                     *)
(***************************************************************************)
MaxFrameCalls == 3

\* calls with an argument that is not valid: m the mutator, a and b its arguments
RejectedCalls ==
    { Call("Table", "", sBadTable, <<>>),
      Call("Select", "", <<sId, sBadColumn>>, <<>>),
      Call("Select", "", <<sBadColumn, sName>>, <<>>),
      Call("Where", "", sBadColumn, opEQ),
      Call("Where", "", sId, sBadOperator),
      Call("OrWhere", "", sBadColumn, opEQ),
      Call("OrWhere", "", sId, sBadOperator),
      Call("WhereIn", "", sBadColumn, <<>>),
      Call("WhereBetween", "", sBadColumn, <<>>),
      Call("WhereNull", "", sBadColumn, <<>>),
      Call("WhereNotNull", "", sBadColumn, <<>>),
      Call("Join", "", sBadTable, sOnUsersPosts),
      Call("Join", "", sPosts, sBadOn),
      Call("LeftJoin", "", sBadTable, sOnUsersPosts),
      Call("LeftJoin", "", sPosts, sBadOn),
      Call("RightJoin", "", sBadTable, sOnUsersPosts),
      Call("RightJoin", "", sPosts, sBadOn),
      Call("OrderBy", "", sBadColumn, sDESC),
      Call("OrderBy", "", sId, sBadDirection),
      Call("GroupBy", "", <<sId, sBadColumn>>, <<>>),
      Call("GroupBy", "", <<sBadColumn>>, <<>>),
      Call("Having", "", sBadColumn, opGT),
      Call("Having", "", countExpr, sBadOperator) }

\* the builder after the call c of RejectedCalls
ApplyRejected(b, c) ==
    CASE c.m = "Table" -> Table(b, c.a)
      [] c.m = "Select" -> Select(b, c.a)
      [] c.m = "Where" -> Where(b, c.a, c.b, IntV(1))
      [] c.m = "OrWhere" -> OrWhere(b, c.a, c.b, IntV(2))
      [] c.m = "WhereIn" -> WhereIn(b, c.a, <<IntV(3), IntV(4)>>)
      [] c.m = "WhereBetween" -> WhereBetween(b, c.a, IntV(3), IntV(4))
      [] c.m = "WhereNull" -> WhereNull(b, c.a)
      [] c.m = "WhereNotNull" -> WhereNotNull(b, c.a)
      [] c.m = "Join" -> InnerJoin(b, c.a, c.b)
      [] c.m = "LeftJoin" -> LeftJoin(b, c.a, c.b)
      [] c.m = "RightJoin" -> RightJoin(b, c.a, c.b)
      [] c.m = "OrderBy" -> OrderBy(b, c.a, c.b)
      [] c.m = "GroupBy" -> GroupBy(b, c.a)
      [] c.m = "Having" -> Having(b, c.a, c.b, IntV(5))

FrCall(c, rejected, nb) ==
    /\ pc = "ready"
    /\ calls < MaxFrameCalls
    /\ calls' = calls + 1
    /\ other' = qb
    /\ qb' = nb
    /\ input' = [call |-> c, rejected |-> rejected]
    /\ result' = NoResult
    /\ UNCHANGED <<port, pc, firstErr, chunk>>

FrAccepted == \E c \in OrderCalls : FrCall(c, FALSE, Apply(qb, c))

FrRejected == \E c \in RejectedCalls : FrCall(c, TRUE, ApplyRejected(qb, c))

NextFrame == FrAccepted \/ FrRejected

SpecFrame == Init /\ [][NextFrame]_vars

\* C35: a mutator call that fails validation changes nothing on the builder
\* but the sticky error: after a rejected Table, Select, Where, OrWhere,
\* WhereIn, WhereBetween, WhereNull, WhereNotNull, Join, LeftJoin, RightJoin,
\* OrderBy, GroupBy or Having call the table, the select columns, the where
\* and having conditions, the joins, the order-by and group-by lists, the
\* limit, the offset and the union are what they were before the call; Select
\* and GroupBy with several columns add none of them when one is invalid.
C35_RejectedCallKeepsClauses ==
    input # <<>> =>
        IF input.rejected
        THEN /\ qb.err # NoErr
             /\ qb.err.arg # <<>>
             /\ qb = [other EXCEPT !.err = qb.err]
        ELSE qb.err = other.err

\* GroupBy("id", "id; --") rejected on a builder that has a table and a group
C35_Witness ==
    /\ input # <<>>
    /\ input.rejected
    /\ input.call.m = "GroupBy"
    /\ Len(input.call.a) = 2
    /\ qb.table # <<>>
    /\ Len(qb.groupBy) = 1


\* ---------------------------------------------------------------------------
\* Several statements from the one child builder of a transaction, as in the
\* documented transfer example: Table, Where, Update, Where, Update.  The port
\* also records each Where made on the child (op "Where", its value as the
\* parameter), so that a statement can be compared with the conditions added
\* since the statement before it.
\* ---------------------------------------------------------------------------

MaxTransferCalls == 5

\* the ids of the two accounts of the example
AccountIds == {IntV(8), IntV(9)}

TransferStep(nb, events) ==
    /\ pc = "callback"
    /\ calls < MaxTransferCalls
    /\ calls' = calls + 1
    /\ other' = nb
    /\ port' = port \o events
    /\ UNCHANGED <<qb, result, pc, firstErr, input, chunk>>

XfTable == TransferStep(Table(other, sUsers), <<>>)

XfWhere ==
    \E v \in AccountIds :
        TransferStep(Where(other, sId, opEQ, v), <<Stmt("Where", TxHandle, <<>>, <<v>>)>>)

XfUpdate ==
    \E d \in DataInputs, ok \in BOOLEAN :
        TransferStep(Update(other, d, ok).b, Update(other, d, ok).stmts)

XfDelete == \E ok \in BOOLEAN : TransferStep(Delete(other, ok).b, Delete(other, ok).stmts)

XfGet == \E ok \in BOOLEAN : TransferStep(Get(other, ok).b, Get(other, ok).stmts)

NextTransfer ==
    \/ TransactionCall
    \/ XfTable \/ XfWhere \/ XfUpdate \/ XfDelete \/ XfGet
    \/ TxCallbackReturn \/ TxRollback \/ TxCommit

SpecTransfer == InitTx /\ [][NextTransfer]_vars

\* the entry i of the port is a statement handed to the database
StatementAt(i) == port[i].op \in StatementOps

\* the index of the last statement before entry i, 0 when there is none
PreviousStatement(i) ==
    LET before == {j \in 1..(i - 1) : StatementAt(j)}
    IN IF before = {} THEN 0 ELSE CHOOSE j \in before : \A k \in before : k <= j

\* the values of the Where calls made on the child after the statement before
\* entry i, in the order made
WheresSince(i) ==
    LET calls_ == SelectSeq(SubSeq(port, PreviousStatement(i) + 1, i - 1),
                            LAMBDA e : e.op = "Where")
    IN [k \in 1..Len(calls_) |-> calls_[k].params[1]]

\* the parameters a statement binds to the placeholders of its WHERE clause
BoundToWhere(stmt) ==
    LET n == Len(SelectSeq(FromWhere(stmt.sql), LAMBDA ch : ch = "?"))
    IN SubSeq(stmt.params, Len(stmt.params) - n + 1, Len(stmt.params))

\* C36: a statement issued from the child builder of a transaction carries in
\* its WHERE clause the conditions added since the statement before it, and
\* none of the conditions added for an earlier statement.
C36_LaterStatementDropsEarlierWhere ==
    \A i \in 1..Len(port) : StatementAt(i) => BoundToWhere(port[i]) = WheresSince(i)


\* control has left Transaction: it returned, or the panic of the callback
\* went through it
TransactionExited == pc \in {"done", "panicked"}

\* Commit or Rollback has been called on the transaction handle
TransactionClosed == CallsOn("Commit", TxHandle) \o CallsOn("Rollback", TxHandle) # <<>>

\* C37: once Begin has succeeded, Commit or Rollback has been called on the
\* transaction handle by the time control leaves Transaction, whether the
\* callback returned nil, returned an error or panicked.
C37_NoTransactionLeftOpen ==
    (TxBegun /\ TransactionExited) => TransactionClosed


\* ---------------------------------------------------------------------------
\* Builders as objects: Union and UnionAll store a pointer.  Here qb is the
\* heap, a function from the builders' addresses to their fields, with
\* unionQuery the pointer to the child (NilBuilder for nil); other is the call
\* stack of ToSQL, one frame per call under way, each with the builder it
\* assembles and, once the recursive call has returned, what it returned.
\* ---------------------------------------------------------------------------

MaxBuilders == 2
MaxHeapCalls == 3

\* the nil pointer; a pointer to the builder at address a is <<a>>
NilBuilder == <<>>

Builders == 1..MaxBuilders

InitHeap ==
    /\ qb = [a \in Builders |-> [NewQueryBuilder(Pool) EXCEPT !.unionQuery = NilBuilder]]
    /\ other = <<>>
    /\ result = NoResult
    /\ port = <<>>
    /\ calls = 0
    /\ pc = "build"
    /\ firstErr = NoErr
    /\ input = <<>>
    /\ chunk = NoChunk

\* a mutator call on the builder at address a
HpMutate(a, nb) ==
    /\ pc = "build"
    /\ calls < MaxHeapCalls
    /\ calls' = calls + 1
    /\ qb' = [qb EXCEPT ![a] = nb]
    /\ UNCHANGED <<other, result, port, pc, firstErr, input, chunk>>

HpTable == \E a \in Builders, t \in {sUsers, sBadTable} : HpMutate(a, Table(qb[a], t))

\* a.Union(c): the pointer c is stored unchecked, c = a included
HpUnion ==
    \E a \in Builders, c \in Builders :
        HpMutate(a, [qb[a] EXCEPT !.unionQuery = <<c>>, !.unionAll = FALSE])

HpUnionAll ==
    \E a \in Builders, c \in Builders :
        HpMutate(a, [qb[a] EXCEPT !.unionQuery = <<c>>, !.unionAll = TRUE])

Frame(a, sub) == [b |-> a, sub |-> sub]

\* a.ToSQL() is called
HpToSQLCall ==
    \E a \in Builders :
        /\ pc = "build"
        /\ pc' = "toSQL"
        /\ other' = <<Frame(a, <<>>)>>
        /\ input' = a
        /\ UNCHANGED <<qb, result, port, calls, firstErr, chunk>>

\* the call on top of the stack has come to qb.unionQuery.ToSQL() and has not
\* made that call yet
AtUnionCall(f) ==
    /\ qb[f.b].err = NoErr
    /\ qb[f.b].table # <<>>
    /\ qb[f.b].unionQuery # NilBuilder
    /\ f.sub = <<>>

\* what the call of frame f returns
FrameResult(f) ==
    LET own == ToSQL([qb[f.b] EXCEPT !.unionQuery = NilBuilder])
    IN IF own.err # NoErr \/ qb[f.b].unionQuery = NilBuilder THEN own
       ELSE IF f.sub[1].err # NoErr THEN SQLResult(<<>>, <<>>, f.sub[1].err)
       ELSE SQLResult(own.sql
                        \o (IF qb[f.b].unionAll THEN <<" ","U","N","I","O","N"," ","A","L","L"," ">>
                            ELSE <<" ","U","N","I","O","N"," ">>)
                        \o f.sub[1].sql,
                      own.params \o f.sub[1].params, NoErr)

\* the recursive call: a new frame for the union child.  A stack with more
\* frames than there are builders holds some builder twice, and since ToSQL
\* changes no field, that call repeats without end: the frames are not
\* enumerated further.
HpToSQLRecurse ==
    /\ pc = "toSQL"
    /\ AtUnionCall(other[Len(other)])
    /\ Len(other) <= MaxBuilders
    /\ other' = Append(other, Frame(qb[other[Len(other)].b].unionQuery[1], <<>>))
    /\ UNCHANGED <<qb, result, port, calls, pc, firstErr, input, chunk>>

\* the recursion that has no end: the goroutine's stack grows until the
\* runtime stops the program
HpStackOverflow ==
    /\ pc = "toSQL"
    /\ AtUnionCall(other[Len(other)])
    /\ Len(other) > MaxBuilders
    /\ pc' = "overflow"
    /\ UNCHANGED <<qb, other, result, port, calls, firstErr, input, chunk>>

\* the call on top of the stack returns, to its caller's frame or, for the
\* outermost call, to the program
HpToSQLReturn ==
    /\ pc = "toSQL"
    /\ ~AtUnionCall(other[Len(other)])
    /\ LET r == FrameResult(other[Len(other)])
           n == Len(other) IN
       IF n = 1
       THEN /\ other' = <<>>
            /\ pc' = "returned"
            /\ result' = [op |-> "ToSQL", sql |-> r.sql, params |-> r.params, err |-> r.err]
       ELSE /\ other' = [SubSeq(other, 1, n - 1) EXCEPT ![n - 1].sub = <<r>>]
            /\ UNCHANGED <<pc, result>>
    /\ UNCHANGED <<qb, port, calls, firstErr, input, chunk>>

NextHeap ==
    \/ HpTable \/ HpUnion \/ HpUnionAll
    \/ HpToSQLCall \/ HpToSQLRecurse \/ HpStackOverflow \/ HpToSQLReturn

SpecHeap == InitHeap /\ [][NextHeap]_vars

\* C38: every call of ToSQL returns, whatever the union pointers: the
\* recursion over the union children never goes on without end.
C38_ToSQLTerminates == pc # "overflow"


\* ---------------------------------------------------------------------------
\* Select and Having with column expressions: identifiers, aliases, aggregate
\* calls, and aggregate calls whose parentheses hold other text.
\* ---------------------------------------------------------------------------

ExpressionInputs ==
    { star, sId, sBadColumn,
      <<"i","d"," ","A","S"," ","n">>, <<"u",".","i","d"," ","A","S"," ","n">>, <<"u",".","i","d"," ","a","s"," ","n">>,
      <<"C","O","U","N","T","(","*",")">>, <<"s","u","m","(","i","d",")"," ","a","s"," ","n">>,
      <<"S","U","M","(","1",";","-","-",")">>, <<"M","A","X","(","?",")">>, <<"M","I","N","(","'","a","'",")">>, <<"C","O","U","N","T","(","a"," ","U","N","I","O","N"," ","b",")">> }

ColumnLists == {<<c>> : c \in ExpressionInputs} \cup {<<c, d>> : c \in {star, sId, <<"M","A","X","(","?",")">>}, d \in ExpressionInputs}

SeTable == Mutate(FALSE, Table(qb, sUsers))

SeSelect == \E cols \in ColumnLists : Mutate(SelectPanics(cols), Select(qb, cols))

SeHaving ==
    \E c \in ExpressionInputs, o \in OperatorInputs :
        Mutate(HavingPanics(c), Having(qb, c, o, IntV(1)))

NextSelect == SeTable \/ SeSelect \/ SeHaving \/ DoToSQL

SpecSelect == Init /\ [][NextSelect]_vars

\* FUNC(arg) with an optional AS alias, where arg is * or an identifier,
\* written in upper case
AggregateOfColumn(s) ==
    LET names == UNION {AfterLit(s, {1}, n) : n \in aggregateNames}
        open == AfterLit(s, AfterStar(s, names, Whitespace), <<"(">>)
        arg == AfterLit(s, open, star) \cup AfterWord(s, open) \cup AfterQualified(s, open)
        close == AfterLit(s, arg, <<")">>)
    IN AtEnd(s, AfterOptionalAlias(s, close))

\* the closed shape of a column expression
ClosedShape(s) ==
    \/ (~isValidIdentifierPanics(s) /\ isValidIdentifier(s))
    \/ aliasPattern(s)
    \/ AggregateOfColumn(ToUpper(s))

\* a semicolon, a comment marker, a placeholder or a quote character
HasInjectionText(s) ==
    \/ ContainsAny(s, {";", "?", "'", DoubleQuote, Backtick})
    \/ IndexOf(s, <<"-","-">>) # 0

\* the expressions Select and Having have accepted into the builder
AcceptedSelect == {qb.selectCols[i] : i \in 1..Len(qb.selectCols)}
AcceptedHaving == {qb.having[i].column : i \in 1..Len(qb.having)}

\* C39: every expression Select or Having accepts is * (Select only), a valid
\* identifier, identifier AS alias, or an aggregate call of * or of an
\* identifier with an optional alias; no accepted expression that is not a
\* quoted identifier holds a semicolon, a comment marker, a placeholder or a
\* quote character; and the SQL ToSQL returns has exactly one placeholder for
\* each parameter.
C39_SelectExpressionsClosedShape ==
    /\ \A c \in AcceptedSelect : c = star \/ ClosedShape(c)
    /\ \A c \in AcceptedHaving : ClosedShape(c)
    /\ \A c \in AcceptedSelect \cup AcceptedHaving : ~IsQuotedForm(c) => ~HasInjectionText(c)
    /\ (result.op = "ToSQL" /\ result.err = NoErr) =>
          Len(SelectSeq(result.sql, LAMBDA ch : ch = "?")) = Len(result.params)

====
